---- MODULE Spec2Model ----
(***************************************************************************)
(* Asteroids: the session state machine, the per-frame physics, the        *)
(* collision/splitting engine, the wave director and the object lifecycle. *)
(*                                                                         *)
(* One frame of the main loop is a fixed sequence of steps; pc is the      *)
(* position of the loop inside the frame:                                  *)
(*   frame -> esc -> update -> [bullets -> ship -> wave -> cleanup] ->     *)
(*   particles -> purge -> draw -> frame                                   *)
(* Every step is one function of the source (or one case of the switch).   *)
(*                                                                         *)
(* float fields are fixed-point integers: Unit model units are one pixel   *)
(* (positions, velocities) or one second (timers, lifetimes).  Angles are  *)
(* whole degrees (the heading only changes by steps of 3 degrees).         *)
(***************************************************************************)
EXTENDS Integers, Sequences, FiniteSets, TLC

\* ------------------------------------------------------------------------
\* Bounds of the model
\* ------------------------------------------------------------------------
MaxFrames == 3          \* frames of the main loop explored
MaxBullets == 2         \* bullets in flight (the vector itself is unbounded)
MaxSteer == 1           \* leading frames in which a steering key may be held

\* ------------------------------------------------------------------------
\* Program constants
\* ------------------------------------------------------------------------
Unit == 100
gameWidth == 800 * Unit
gameHeight == 600 * Unit
MAX_LIVES == 4
BASE_COOLDOWN_DURATION == 1 * Unit
WAVE_TRANSITION_DURATION == 2 * Unit

MENU == "MENU"
NEW_GAME_CONFIRM == "NEW_GAME_CONFIRM"
HIGH_SCORES == "HIGH_SCORES"
WAVE_TRANSITION == "WAVE_TRANSITION"
WAITING_TO_SPAWN == "WAITING_TO_SPAWN"
PLAYING == "PLAYING"
PAUSED == "PAUSED"
GAME_OVER == "GAME_OVER"
GameState == {MENU, NEW_GAME_CONFIRM, HIGH_SCORES, WAVE_TRANSITION,
              WAITING_TO_SPAWN, PLAYING, PAUSED, GAME_OVER}

\* enum AsteroidSize { SMALL, MEDIUM, LARGE }
SMALL == 0
MEDIUM == 1
LARGE == 2
AsteroidSize == {SMALL, MEDIUM, LARGE}

ACTION_RESUME == "ACTION_RESUME"
ACTION_NEW_GAME == "ACTION_NEW_GAME"
ACTION_HIGH_SCORES == "ACTION_HIGH_SCORES"
ACTION_SCALE == "ACTION_SCALE"
ACTION_EXIT == "ACTION_EXIT"

\* ------------------------------------------------------------------------
\* Arithmetic helpers
\* ------------------------------------------------------------------------
Abs(a) == IF a < 0 THEN -a ELSE a

\* C++ division: the quotient is truncated towards zero.
Div(a, b) == IF a >= 0 THEN a \div b ELSE -((-a) \div b)

RECURSIVE SqrtIter(_, _, _)
SqrtIter(n, lo, hi) ==
    IF lo >= hi THEN lo
    ELSE LET mid == (lo + hi + 1) \div 2
         IN  IF mid * mid <= n THEN SqrtIter(n, mid, hi)
                               ELSE SqrtIter(n, lo, mid - 1)

\* sqrt() on fixed-point squares (integer square root).
Sqrt(n) == SqrtIter(n, 0, 46340)

\* sin(3k degrees) * 10000 for k = 0..30
SinTable == <<0, 523, 1045, 1564, 2079, 2588, 3090, 3584, 4067, 4540, 5000,
              5446, 5878, 6293, 6691, 7071, 7431, 7771, 8090, 8387, 8660,
              8910, 9135, 9336, 9511, 9659, 9781, 9877, 9945, 9986, 10000>>

Sin10k(deg) ==
    LET d == deg % 360
    IN  IF d <= 90 THEN SinTable[(d \div 3) + 1]
        ELSE IF d <= 180 THEN SinTable[((180 - d) \div 3) + 1]
        ELSE IF d <= 270 THEN -SinTable[((d - 180) \div 3) + 1]
        ELSE -SinTable[((360 - d) \div 3) + 1]

Cos10k(deg) == Sin10k(deg + 90)

\* Vector2 RotatePoint(relativeX, relativeY, rotationDegrees)
RotatePoint(relativeX, relativeY, rotationDegrees) ==
    [x |-> Div(relativeX * Cos10k(rotationDegrees)
               - relativeY * Sin10k(rotationDegrees), 10000),
     y |-> Div(relativeX * Sin10k(rotationDegrees)
               + relativeY * Cos10k(rotationDegrees), 10000)]

\* sqrt(pow(dx, 2) + pow(dy, 2)) < r, for r > 0.  The squares are only
\* formed when both offsets are below r, which keeps them in 32 bits.
DistanceLess(dx, dy, r) ==
    /\ Abs(dx) < r
    /\ Abs(dy) < r
    /\ dx * dx + dy * dy < r * r

\* Wrapping that carries the overshoot to the opposite edge (c -+ extent)
\* instead of placing the entity on the edge.
WrapCoord_Modular(c, extent) ==
    IF c < 0 THEN c + extent ELSE IF c > extent THEN c - extent ELSE c

\* Screen wrapping of one coordinate (the two ifs of the source, in order).
WrapCoord(c, extent) ==
    LET c1 == IF c < 0 THEN extent ELSE c
    IN  IF c1 > extent THEN 0 ELSE c1

\* ------------------------------------------------------------------------
\* State
\* ------------------------------------------------------------------------
VARIABLES
    currentState,           \* GameState
    score, lives, currentWave, highScore,
    waveTransitionTimer, inputCooldownTimer,
    currentScale,
    ship,                   \* the one Ship record
    bullets,                \* std::vector<Bullet>
    asteroids,              \* std::vector<Asteroid>
    asteroidsCapacity,      \* asteroids.capacity()
    particles,              \* std::vector<Particle>
    currentMenuItems, selectedMenuIndex,
    exitRequested, shouldExit,
    menuInitialized, lastMenuContext, lastLivesCount,   \* menu_system.cpp statics
    lastPauseState,         \* static local of the PAUSED case
    highScoreFile,          \* highscore.dat: NoFile, or <<stored value>>
    frameTime,              \* GetFrameTime() during this frame
    audio,                  \* notifications sent to the audio sink this frame
    frames,                 \* frames started
    before,                 \* the globals at the top of the current frame
    switchCase,             \* the case of the update switch this frame ran
    pc                      \* position of the main loop inside the frame

simVars == <<currentState, score, lives, currentWave, highScore,
             waveTransitionTimer, inputCooldownTimer, currentScale, ship,
             bullets, asteroids, asteroidsCapacity, particles,
             currentMenuItems, selectedMenuIndex, exitRequested, shouldExit,
             menuInitialized, lastMenuContext, lastLivesCount, lastPauseState,
             highScoreFile, audio>>
envVars == <<frameTime, frames, before, switchCase>>
vars == <<simVars, envVars, pc>>

\* highscore.dat: <<>> when the file is absent, <<n>> when it holds n.
NoFile == <<>>

\* The globals as one value, so that the functions of the source can be
\* written as functions from globals to globals and composed in call order.
Globals ==
    [currentState |-> currentState, score |-> score, lives |-> lives,
     currentWave |-> currentWave, highScore |-> highScore,
     waveTransitionTimer |-> waveTransitionTimer,
     inputCooldownTimer |-> inputCooldownTimer,
     currentScale |-> currentScale, ship |-> ship, bullets |-> bullets,
     asteroids |-> asteroids, asteroidsCapacity |-> asteroidsCapacity,
     particles |-> particles, currentMenuItems |-> currentMenuItems,
     selectedMenuIndex |-> selectedMenuIndex,
     exitRequested |-> exitRequested, shouldExit |-> shouldExit,
     menuInitialized |-> menuInitialized,
     lastMenuContext |-> lastMenuContext,
     lastLivesCount |-> lastLivesCount, lastPauseState |-> lastPauseState,
     highScoreFile |-> highScoreFile, audio |-> audio]

Store(g) ==
    /\ currentState' = g.currentState
    /\ score' = g.score
    /\ lives' = g.lives
    /\ currentWave' = g.currentWave
    /\ highScore' = g.highScore
    /\ waveTransitionTimer' = g.waveTransitionTimer
    /\ inputCooldownTimer' = g.inputCooldownTimer
    /\ currentScale' = g.currentScale
    /\ ship' = g.ship
    /\ bullets' = g.bullets
    /\ asteroids' = g.asteroids
    /\ asteroidsCapacity' = g.asteroidsCapacity
    /\ particles' = g.particles
    /\ currentMenuItems' = g.currentMenuItems
    /\ selectedMenuIndex' = g.selectedMenuIndex
    /\ exitRequested' = g.exitRequested
    /\ shouldExit' = g.shouldExit
    /\ menuInitialized' = g.menuInitialized
    /\ lastMenuContext' = g.lastMenuContext
    /\ lastLivesCount' = g.lastLivesCount
    /\ lastPauseState' = g.lastPauseState
    /\ highScoreFile' = g.highScoreFile
    /\ audio' = g.audio

\* ------------------------------------------------------------------------
\* Input source
\* ------------------------------------------------------------------------
KEY_A == "A"
KEY_D == "D"
KEY_W == "W"
KEY_S == "S"
KEY_LEFT == "LEFT"
KEY_RIGHT == "RIGHT"
KEY_UP == "UP"
KEY_DOWN == "DOWN"
KEY_SPACE == "SPACE"
KEY_ENTER == "ENTER"
KEY_P == "P"
KEY_ESCAPE == "ESCAPE"
KEY_Y == "Y"
KEY_N == "N"
KEY_M == "M"
KEY_R == "R"
Keys == {KEY_A, KEY_D, KEY_W, KEY_S, KEY_LEFT, KEY_RIGHT, KEY_UP, KEY_DOWN,
         KEY_SPACE, KEY_ENTER, KEY_P, KEY_ESCAPE, KEY_Y, KEY_N, KEY_M, KEY_R}
SteerKeys == {KEY_A, KEY_D, KEY_W, KEY_S, KEY_LEFT, KEY_RIGHT, KEY_UP, KEY_DOWN}

\* The key states offered to a frame: nothing, every single key going down,
\* a key held from an earlier frame, and three two-key chords.  A key that
\* is pressed in a frame is also down in it.
InputSamples ==
    {[pressed |-> {}, down |-> {}]}
    \cup {[pressed |-> {k}, down |-> {k}] : k \in Keys}
    \cup {[pressed |-> {}, down |-> {KEY_W}]}
    \cup {[pressed |-> {KEY_DOWN, KEY_ENTER}, down |-> {KEY_DOWN, KEY_ENTER}],
          [pressed |-> {KEY_ESCAPE, KEY_ENTER}, down |-> {KEY_ESCAPE, KEY_ENTER}],
          [pressed |-> {KEY_SPACE}, down |-> {KEY_SPACE, KEY_A}]}

\* GetFrameTime() of a frame (seconds * Unit): a frame at the target rate
\* of 60 frames per second, in whole hundredths, and a frame that took two
\* seconds (the window was being dragged).
Tick == 2
Hitch == 200

NoKeys == [pressed |-> {}, down |-> {}]

\* The (keys, elapsed time) pairs offered to a frame: every key sample in a
\* short frame, and a long frame in which no key goes down.
FrameSamples ==
    {<<in, Tick>> : in \in InputSamples} \cup {<<NoKeys, Hitch>>}

IsKeyPressed(in, k) == k \in in.pressed
IsKeyDown(in, k) == k \in in.down

\* ------------------------------------------------------------------------
\* menu_system.cpp
\* ------------------------------------------------------------------------
MenuItem(label, action, dynamicLabel) ==
    [label |-> label, action |-> action, dynamicLabel |-> dynamicLabel]

\* HasActiveGame() with `lives >= 0` for `lives > 0`.
HasActiveGame_NonNegative(g) == g.lives >= 0

HasActiveGame(g) == g.lives > 0

MainMenuItems(g) ==
    (IF HasActiveGame(g)
        THEN <<MenuItem("Resume Game", ACTION_RESUME, FALSE)>> ELSE <<>>)
    \o <<MenuItem("New Game", ACTION_NEW_GAME, FALSE),
         MenuItem("High Scores", ACTION_HIGH_SCORES, FALSE),
         MenuItem("Scale: " \o ToString(g.currentScale) \o "x", ACTION_SCALE, TRUE),
         MenuItem("Exit", ACTION_EXIT, FALSE)>>

PauseMenuItems ==
    <<MenuItem("Continue", ACTION_RESUME, FALSE),
      MenuItem("Main Menu", ACTION_EXIT, FALSE)>>

BuildMenuItems(g, context) ==
    [g EXCEPT !.selectedMenuIndex = 0,
              !.currentMenuItems =
                  CASE context = MENU -> MainMenuItems(g)
                    [] context = PAUSED -> PauseMenuItems
                    [] OTHER -> <<MenuItem("Continue", ACTION_RESUME, FALSE)>>]

CenteredShip ==
    [x |-> gameWidth \div 2, y |-> gameHeight \div 2, rotation |-> 0,
     velocityX |-> 0, velocityY |-> 0]

\* clear() empties a vector and keeps its capacity.
StartNewGame(g) ==
    [g EXCEPT !.currentState = WAVE_TRANSITION,
              !.score = 0,
              !.lives = MAX_LIVES,
              !.currentWave = 1,
              !.waveTransitionTimer = WAVE_TRANSITION_DURATION,
              !.ship = CenteredShip,
              !.bullets = <<>>,
              !.asteroids = <<>>]

\* ExecuteMenuAction() whose ACTION_NEW_GAME starts the new game at once,
\* active game or not.
ExecuteMenuAction_NoConfirm(g, action) ==
    CASE action = ACTION_RESUME ->
            IF g.currentState = PAUSED THEN [g EXCEPT !.currentState = PLAYING]
            ELSE IF HasActiveGame(g) THEN [g EXCEPT !.currentState = PLAYING]
            ELSE g
      [] action = ACTION_NEW_GAME -> StartNewGame(g)
      [] action = ACTION_HIGH_SCORES -> [g EXCEPT !.currentState = HIGH_SCORES]
      [] action = ACTION_SCALE ->
            LET g1 == [g EXCEPT !.currentScale = (g.currentScale % 4) + 1]
            IN  BuildMenuItems(g1, IF g1.currentState = PAUSED THEN PAUSED ELSE MENU)
      [] action = ACTION_EXIT ->
            IF g.currentState = PAUSED THEN [g EXCEPT !.currentState = MENU]
            ELSE [g EXCEPT !.exitRequested = TRUE]

ExecuteMenuAction(g, action) ==
    CASE action = ACTION_RESUME ->
            IF g.currentState = PAUSED THEN [g EXCEPT !.currentState = PLAYING]
            ELSE IF HasActiveGame(g) THEN [g EXCEPT !.currentState = PLAYING]
            ELSE g
      [] action = ACTION_NEW_GAME ->
            IF HasActiveGame(g) THEN [g EXCEPT !.currentState = NEW_GAME_CONFIRM]
            ELSE StartNewGame(g)
      [] action = ACTION_HIGH_SCORES -> [g EXCEPT !.currentState = HIGH_SCORES]
      [] action = ACTION_SCALE ->
            LET g1 == [g EXCEPT !.currentScale = (g.currentScale % 4) + 1]
            IN  BuildMenuItems(g1, IF g1.currentState = PAUSED THEN PAUSED ELSE MENU)
      [] action = ACTION_EXIT ->
            IF g.currentState = PAUSED THEN [g EXCEPT !.currentState = MENU]
            ELSE [g EXCEPT !.exitRequested = TRUE]

UpdateDynamicMenu(g, in) ==
    IF g.currentMenuItems = <<>> THEN g
    ELSE
      LET optionsCount == Len(g.currentMenuItems)
          \* selectedMenuIndex is 0-based, as in the source
          s0 == g.selectedMenuIndex
          s1 == IF IsKeyPressed(in, KEY_UP) \/ IsKeyPressed(in, KEY_W)
                   THEN (s0 - 1 + optionsCount) % optionsCount ELSE s0
          s2 == IF IsKeyPressed(in, KEY_DOWN) \/ IsKeyPressed(in, KEY_S)
                   THEN (s1 + 1) % optionsCount ELSE s1
          g1 == [g EXCEPT !.selectedMenuIndex = s2]
      IN  IF (IsKeyPressed(in, KEY_ENTER) \/ IsKeyPressed(in, KEY_SPACE))
             /\ s2 >= 0 /\ s2 < optionsCount
             THEN ExecuteMenuAction(g1, g1.currentMenuItems[s2 + 1].action)
             ELSE g1

\* The rebuild test shared by UpdateUnifiedMenu and DrawUnifiedMenu.
RebuildMainMenu(g) ==
    IF ~g.menuInitialized \/ g.lastMenuContext # MENU \/ g.lastLivesCount # g.lives
       THEN [BuildMenuItems(g, MENU) EXCEPT !.menuInitialized = TRUE,
                                           !.lastMenuContext = MENU,
                                           !.lastLivesCount = g.lives]
       ELSE g

UpdateUnifiedMenu(g, in) == UpdateDynamicMenu(RebuildMainMenu(g), in)

DrawUnifiedMenu(g) == RebuildMainMenu(g)

\* ------------------------------------------------------------------------
\* High score (main.cpp)
\* ------------------------------------------------------------------------
\* SaveHighScore: fopen may fail, in which case the file keeps its content.
SaveHighScore(g, writable) ==
    IF writable THEN [g EXCEPT !.highScoreFile = <<g.highScore>>] ELSE g

\* CheckAndUpdateHighScore() without the comparison: the last score is kept.
CheckAndUpdateHighScore_Last(g, writable) ==
    SaveHighScore([g EXCEPT !.highScore = g.score], writable)

CheckAndUpdateHighScore(g, writable) ==
    IF g.score > g.highScore
       THEN SaveHighScore([g EXCEPT !.highScore = g.score], writable)
       ELSE g

Play(g, sound) == [g EXCEPT !.audio = Append(g.audio, sound)]

\* ------------------------------------------------------------------------
\* particles.cpp
\* ------------------------------------------------------------------------
\* Values of (float)rand() / RAND_MAX offered to a burst of particles, in
\* hundredths.  All rand() calls of one burst return the sampled value.
RandSamples == {0, 100}

\* An angle in degrees rounded to the 3-degree grid of the sine table.
Grid3(deg) == 3 * ((deg + 1) \div 3)

Particle(x, y, velocityX, velocityY, life, size) ==
    [x |-> x, y |-> y, velocityX |-> velocityX, velocityY |-> velocityY,
     life |-> life, maxLife |-> life, size |-> size, active |-> TRUE]

ExplosionCount(size) ==
    CASE size = SMALL -> 6 [] size = MEDIUM -> 8 [] OTHER -> 12
ExplosionSpeed(size) ==
    CASE size = SMALL -> 3 * Unit [] size = MEDIUM -> 4 * Unit [] OTHER -> 5 * Unit
ExplosionLife(size) ==
    CASE size = SMALL -> 80 [] size = MEDIUM -> 120 [] OTHER -> 150

CreateExplosionParticles(g, x, y, size, r) ==
    LET particleCount == ExplosionCount(size)
        \* angle = i / count * 2 PI + r * 0.5 (radians)
        angle(i) == Grid3(((i * 360) \div particleCount) + ((r * 2865) \div 10000))
        speed == Div(ExplosionSpeed(size) * (50 + (r \div 2)), 100)
        life == Div(ExplosionLife(size) * (70 + ((r * 30) \div 100)), 100)
        new == [k \in 1..particleCount |->
                   Particle(x, y,
                            Div(Cos10k(angle(k - 1)) * speed, 10000),
                            Div(Sin10k(angle(k - 1)) * speed, 10000),
                            life, 2 * Unit + 2 * r)]
    IN  [g EXCEPT !.particles = g.particles \o new]

CreateShipExplosionParticles(g, x, y, r) ==
    LET particleCount == 15
        angle == Grid3((r * 360) \div 100)
        speed == 2 * Unit + 6 * r
        new == [k \in 1..particleCount |->
                   Particle(x + (r - 50) * 10, y + (r - 50) * 10,
                            Div(Cos10k(angle) * speed, 10000),
                            Div(Sin10k(angle) * speed, 10000),
                            2 * Unit + r, 150 + 3 * r)]
    IN  [g EXCEPT !.particles = g.particles \o new]

CreateThrustParticles(g, x, y, rotation, r) ==
    LET particleCount == 3
        thrustPos(i) == RotatePoint(0, (15 + i * 5) * Unit, rotation)
        thrustDir == RotatePoint(0, Unit, rotation)
        new == [k \in 1..particleCount |->
                   Particle(x + thrustPos(k - 1).x + (r - 50) * 4,
                            y + thrustPos(k - 1).y + (r - 50) * 4,
                            Div(thrustDir.x * (100 + r), 100) + (r - 50) * 2,
                            Div(thrustDir.y * (100 + r), 100) + (r - 50) * 2,
                            30 + (r \div 5), Unit + Div(150 * r, 100))]
    IN  [g EXCEPT !.particles = g.particles \o new]

\* The particle integrator without `particle.life -= GetFrameTime()`.
UpdateParticle_Ageless(p, dt) ==
    IF ~p.active THEN p
    ELSE [p EXCEPT !.x = WrapCoord(p.x + p.velocityX, gameWidth),
                   !.y = WrapCoord(p.y + p.velocityY, gameHeight),
                   !.velocityX = Div(p.velocityX * 98, 100),
                   !.velocityY = Div(p.velocityY * 98, 100),
                   !.active = (p.life > 0)]

UpdateParticle(p, dt) ==
    IF ~p.active THEN p
    ELSE LET life == p.life - dt
         IN  [p EXCEPT !.x = WrapCoord(p.x + p.velocityX, gameWidth),
                       !.y = WrapCoord(p.y + p.velocityY, gameHeight),
                       !.velocityX = Div(p.velocityX * 98, 100),
                       !.velocityY = Div(p.velocityY * 98, 100),
                       !.life = life,
                       !.active = (life > 0)]

UpdateParticles(g, dt) ==
    [g EXCEPT !.particles =
        [k \in 1..Len(g.particles) |-> UpdateParticle(g.particles[k], dt)]]

IsActive(o) == o.active

CleanupParticles(g) ==
    [g EXCEPT !.particles = SelectSeq(g.particles, IsActive)]

\* ------------------------------------------------------------------------
\* physics.cpp
\* ------------------------------------------------------------------------
Bullet(x, y, velocityX, velocityY) ==
    [x |-> x, y |-> y, velocityX |-> velocityX, velocityY |-> velocityY,
     active |-> TRUE]

HandleShipInput(g, in, r) ==
    LET rot1 == IF IsKeyDown(in, KEY_A) \/ IsKeyDown(in, KEY_LEFT)
                   THEN g.ship.rotation - 3 ELSE g.ship.rotation
        rot == IF IsKeyDown(in, KEY_D) \/ IsKeyDown(in, KEY_RIGHT) THEN rot1 + 3 ELSE rot1
        isThrusting == IsKeyDown(in, KEY_W) \/ IsKeyDown(in, KEY_UP)
        thrustDirection == RotatePoint(0, -30, rot)
        vx1 == IF isThrusting THEN g.ship.velocityX + thrustDirection.x
                              ELSE g.ship.velocityX
        vy1 == IF isThrusting THEN g.ship.velocityY + thrustDirection.y
                              ELSE g.ship.velocityY
        g1 == IF isThrusting
                 THEN CreateThrustParticles(Play(g, "Thrust"),
                                            g.ship.x, g.ship.y, rot, r)
                 ELSE g
        braking == IsKeyDown(in, KEY_S) \/ IsKeyDown(in, KEY_DOWN)
        currentSpeed == Sqrt(vx1 * vx1 + vy1 * vy1)
        \* brakeForce 0.08 along the velocity, only above speed 0.05
        vx2 == IF braking /\ currentSpeed > 5
                  THEN vx1 - Div(vx1 * 8, currentSpeed) ELSE vx1
        vy2 == IF braking /\ currentSpeed > 5
                  THEN vy1 - Div(vy1 * 8, currentSpeed) ELSE vy1
        reverseDirection == RotatePoint(0, 45, rot)
        vx3 == IF braking THEN vx2 + Div(reverseDirection.x * 4, 10) ELSE vx2
        vy3 == IF braking THEN vy2 + Div(reverseDirection.y * 4, 10) ELSE vy2
        ship1 == [g.ship EXCEPT !.rotation = rot, !.velocityX = vx3,
                                !.velocityY = vy3]
        g2 == [g1 EXCEPT !.ship = ship1]
        bulletDirection == RotatePoint(0, -8 * Unit, rot)
    IN  IF IsKeyPressed(in, KEY_SPACE)
           THEN Play([g2 EXCEPT !.bullets =
                         Append(g2.bullets,
                                Bullet(ship1.x, ship1.y,
                                       ship1.velocityX + bulletDirection.x,
                                       ship1.velocityY + bulletDirection.y))],
                     "Shoot")
           ELSE g2

UpdateShipPhysics(g) ==
    LET vx1 == Div(g.ship.velocityX * 99, 100)
        vy1 == Div(g.ship.velocityY * 99, 100)
        speed == Sqrt(vx1 * vx1 + vy1 * vy1)
        tooFast == vx1 * vx1 + vy1 * vy1 > (8 * Unit) * (8 * Unit)
        vx == IF tooFast THEN Div(vx1 * 8 * Unit, speed) ELSE vx1
        vy == IF tooFast THEN Div(vy1 * 8 * Unit, speed) ELSE vy1
    IN  [g EXCEPT !.ship = [g.ship EXCEPT
            !.velocityX = vx,
            !.velocityY = vy,
            !.x = WrapCoord(g.ship.x + vx, gameWidth),
            !.y = WrapCoord(g.ship.y + vy, gameHeight)]]

\* The bullet integrator without the off-screen test.
UpdateBullet_NoBounds(b) ==
    IF ~b.active THEN b
    ELSE [b EXCEPT !.x = b.x + b.velocityX, !.y = b.y + b.velocityY]

UpdateBullet(b) ==
    IF ~b.active THEN b
    ELSE LET x == b.x + b.velocityX
             y == b.y + b.velocityY
         IN  [b EXCEPT !.x = x, !.y = y,
                       !.active = ~(x < 0 \/ x > gameWidth \/ y < 0 \/ y > gameHeight)]

UpdateBulletPhysics(g) ==
    [g EXCEPT !.bullets = [k \in 1..Len(g.bullets) |-> UpdateBullet(g.bullets[k])]]

UpdateAsteroid(a) ==
    IF ~a.active THEN a
    ELSE [a EXCEPT !.x = WrapCoord(a.x + a.velocityX, gameWidth),
                   !.y = WrapCoord(a.y + a.velocityY, gameHeight)]

UpdateAsteroidPhysics(g) ==
    [g EXCEPT !.asteroids =
        [k \in 1..Len(g.asteroids) |-> UpdateAsteroid(g.asteroids[k])]]

UpdatePlayingPhysics(g, in, r) ==
    UpdateAsteroidPhysics(UpdateBulletPhysics(UpdateShipPhysics(HandleShipInput(g, in, r))))

\* ------------------------------------------------------------------------
\* game_logic.cpp
\* ------------------------------------------------------------------------
Asteroid(x, y, velocityX, velocityY, size) ==
    [x |-> x, y |-> y, velocityX |-> velocityX, velocityY |-> velocityY,
     size |-> size, rotation |-> 0, active |-> TRUE]

AsteroidRadius(size) ==
    IF size = LARGE THEN 30 * Unit ELSE IF size = MEDIUM THEN 20 * Unit ELSE 10 * Unit

BulletRadius == 2 * Unit
ShipRadius == 8 * Unit

\* Points awarded for a destroyed asteroid (the switch on asteroid.size).
\* The switch with the brackets of LARGE and SMALL exchanged.
AwardPoints_Reversed(size) ==
    CASE size = LARGE -> 100 [] size = MEDIUM -> 50 [] OTHER -> 20

AwardPoints(size) ==
    CASE size = LARGE -> 20 [] size = MEDIUM -> 50 [] size = SMALL -> 100

\* fragment.size = (asteroid.size == LARGE) ? MEDIUM : SMALL
FragmentSize(size) == IF size = LARGE THEN MEDIUM ELSE SMALL

\* asteroids.push_back(a): a full vector reallocates (its capacity doubles).
PushBackAsteroid(g, a) ==
    [g EXCEPT !.asteroids = Append(g.asteroids, a),
              !.asteroidsCapacity =
                  IF Len(g.asteroids) < g.asteroidsCapacity THEN g.asteroidsCapacity
                  ELSE IF g.asteroidsCapacity = 0 THEN 1
                  ELSE 2 * g.asteroidsCapacity]

\* What the second fragment reads through `asteroid` once the first
\* push_back has reallocated the vector: the reference dangles, so the read
\* may find the old bytes intact, or bytes the allocator has reused.
StaleOutcomes == {"intact", "zeroed", "othersize"}

DanglingRead(parent, outcome) ==
    CASE outcome = "intact" -> parent
      [] outcome = "zeroed" ->
            [parent EXCEPT !.x = 0, !.y = 0, !.velocityX = 0, !.velocityY = 0]
      [] outcome = "othersize" ->
            [parent EXCEPT !.size = IF parent.size = LARGE THEN SMALL ELSE LARGE]

Fragment(from, jitter) ==
    Asteroid(from.x, from.y,
             from.velocityX + jitter[1] * Unit,
             from.velocityY + jitter[2] * Unit,
             FragmentSize(from.size))

\* The body of `if (asteroid.size != SMALL)`: the loop for (i = 0; i < 2; i++).
SplitAsteroid(g, parent, draw) ==
    LET reallocated == Len(g.asteroids) >= g.asteroidsCapacity
        g1 == PushBackAsteroid(g, Fragment(parent, draw.jitter1))
        seen == IF reallocated THEN DanglingRead(parent, draw.stale) ELSE parent
    IN  PushBackAsteroid(g1, Fragment(seen, draw.jitter2))

RECURSIVE FirstInRange_AnyRecord(_, _, _, _, _)
\* The inner loop without `if (!asteroid.active) continue`.
FirstInRange_AnyRecord(asts, k, x, y, reach) ==
    IF k > Len(asts) THEN 0
    ELSE IF DistanceLess(x - asts[k].x, y - asts[k].y,
                         AsteroidRadius(asts[k].size) + reach)
         THEN k
         ELSE FirstInRange_AnyRecord(asts, k + 1, x, y, reach)

RECURSIVE FirstInRange(_, _, _, _, _)
\* Index of the first active asteroid at or after k whose centre is closer
\* than its radius + reach to (x, y); 0 when there is none.
FirstInRange(asts, k, x, y, reach) ==
    IF k > Len(asts) THEN 0
    ELSE IF asts[k].active
            /\ DistanceLess(x - asts[k].x, y - asts[k].y,
                            AsteroidRadius(asts[k].size) + reach)
         THEN k
         ELSE FirstInRange(asts, k + 1, x, y, reach)

\* The hit branch without `bullet.active = false`.
BulletHits_Piercing(g, bi, ai, draw) ==
    LET asteroid == g.asteroids[ai]
        g1 == [g EXCEPT !.asteroids[ai].active = FALSE]
        g2 == Play(g1, <<"AsteroidExplosion", asteroid.size>>)
        g3 == CreateExplosionParticles(g2, asteroid.x, asteroid.y, asteroid.size,
                                       draw.rnd)
        g4 == [g3 EXCEPT !.score = g3.score + AwardPoints(asteroid.size)]
    IN  IF asteroid.size # SMALL THEN SplitAsteroid(g4, asteroid, draw) ELSE g4

BulletHits(g, bi, ai, draw) ==
    LET asteroid == g.asteroids[ai]
        g1 == [g EXCEPT !.bullets[bi].active = FALSE,
                        !.asteroids[ai].active = FALSE]
        g2 == Play(g1, <<"AsteroidExplosion", asteroid.size>>)
        g3 == CreateExplosionParticles(g2, asteroid.x, asteroid.y, asteroid.size,
                                       draw.rnd)
        g4 == [g3 EXCEPT !.score = g3.score + AwardPoints(asteroid.size)]
    IN  IF asteroid.size # SMALL THEN SplitAsteroid(g4, asteroid, draw) ELSE g4

RECURSIVE CollideBulletsFrom(_, _, _)
CollideBulletsFrom(g, bi, tape) ==
    IF bi > Len(g.bullets) THEN g
    ELSE LET bullet == g.bullets[bi]
             ai == IF bullet.active
                      THEN FirstInRange(g.asteroids, 1, bullet.x, bullet.y, BulletRadius)
                      ELSE 0
         IN  CollideBulletsFrom(
                 IF ai = 0 THEN g ELSE BulletHits(g, bi, ai, tape[bi]), bi + 1, tape)

\* tape[bi] holds the random values and the outcome of the dangling read
\* that the hit of bullet bi consumes.
HandleBulletAsteroidCollisions(g, tape) == CollideBulletsFrom(g, 1, tape)

\* HandleShipAsteroidCollisions() that also destroys the hazard it hit, as
\* the bullet collision does.
HandleShipAsteroidCollisions_Crush(g, r, writable) ==
    LET ai == FirstInRange(g.asteroids, 1, g.ship.x, g.ship.y, ShipRadius)
        g1 == CreateShipExplosionParticles(Play(g, <<"ShipExplosion">>),
                                           g.ship.x, g.ship.y, r)
        g2 == [g1 EXCEPT !.lives = g1.lives - 1,
                         !.asteroids[ai].active = FALSE]
    IN  IF ai = 0 THEN [g |-> g, destroyed |-> FALSE]
        ELSE IF g2.lives > 0
             THEN [g |-> [g2 EXCEPT !.currentState = WAITING_TO_SPAWN,
                                    !.inputCooldownTimer = BASE_COOLDOWN_DURATION],
                   destroyed |-> TRUE]
             ELSE [g |-> Play([CheckAndUpdateHighScore(g2, writable)
                                 EXCEPT !.currentState = GAME_OVER],
                              <<"GameOver">>),
                   destroyed |-> TRUE]

\* HandleShipAsteroidCollisions() with `if (lives >= 0)` for
\* `if (lives > 0)`.
HandleShipAsteroidCollisions_SpareLife(g, r, writable) ==
    LET ai == FirstInRange(g.asteroids, 1, g.ship.x, g.ship.y, ShipRadius)
        g1 == CreateShipExplosionParticles(Play(g, <<"ShipExplosion">>),
                                           g.ship.x, g.ship.y, r)
        g2 == [g1 EXCEPT !.lives = g1.lives - 1]
    IN  IF ai = 0 THEN [g |-> g, destroyed |-> FALSE]
        ELSE IF g2.lives >= 0
             THEN [g |-> [g2 EXCEPT !.currentState = WAITING_TO_SPAWN,
                                    !.inputCooldownTimer = BASE_COOLDOWN_DURATION],
                   destroyed |-> TRUE]
             ELSE [g |-> Play([CheckAndUpdateHighScore(g2, writable)
                                 EXCEPT !.currentState = GAME_OVER],
                              <<"GameOver">>),
                   destroyed |-> TRUE]

\* HandleShipAsteroidCollisions() without `if (!asteroid.active) continue`.
HandleShipAsteroidCollisions_AnyRecord(g, r, writable) ==
    LET ai == FirstInRange_AnyRecord(g.asteroids, 1, g.ship.x, g.ship.y, ShipRadius)
        g1 == CreateShipExplosionParticles(Play(g, <<"ShipExplosion">>),
                                           g.ship.x, g.ship.y, r)
        g2 == [g1 EXCEPT !.lives = g1.lives - 1]
    IN  IF ai = 0 THEN [g |-> g, destroyed |-> FALSE]
        ELSE IF g2.lives > 0
             THEN [g |-> [g2 EXCEPT !.currentState = WAITING_TO_SPAWN,
                                    !.inputCooldownTimer = BASE_COOLDOWN_DURATION],
                   destroyed |-> TRUE]
             ELSE [g |-> Play([CheckAndUpdateHighScore(g2, writable)
                                 EXCEPT !.currentState = GAME_OVER],
                              <<"GameOver">>),
                   destroyed |-> TRUE]

\* Returns the globals and the function's return value.
HandleShipAsteroidCollisions(g, r, writable) ==
    LET ai == FirstInRange(g.asteroids, 1, g.ship.x, g.ship.y, ShipRadius)
        g1 == CreateShipExplosionParticles(Play(g, <<"ShipExplosion">>),
                                           g.ship.x, g.ship.y, r)
        g2 == [g1 EXCEPT !.lives = g1.lives - 1]
    IN  IF ai = 0 THEN [g |-> g, destroyed |-> FALSE]
        ELSE IF g2.lives > 0
             THEN [g |-> [g2 EXCEPT !.currentState = WAITING_TO_SPAWN,
                                    !.inputCooldownTimer = BASE_COOLDOWN_DURATION],
                   destroyed |-> TRUE]
             ELSE [g |-> Play([CheckAndUpdateHighScore(g2, writable)
                                 EXCEPT !.currentState = GAME_OVER],
                              <<"GameOver">>),
                   destroyed |-> TRUE]

\* CheckWaveCompletion() that leaves the countdown where it is.
CheckWaveCompletion_NoCountdown(g) ==
    LET allAsteroidsDestroyed == \A k \in 1..Len(g.asteroids) : ~g.asteroids[k].active
    IN  IF allAsteroidsDestroyed
           THEN [g EXCEPT !.currentWave = g.currentWave + 1,
                          !.currentState = WAVE_TRANSITION]
           ELSE g

\* CheckWaveCompletion() that starts the next wave with a fresh score.
CheckWaveCompletion_Rescore(g) ==
    LET allAsteroidsDestroyed == \A k \in 1..Len(g.asteroids) : ~g.asteroids[k].active
    IN  IF allAsteroidsDestroyed
           THEN [g EXCEPT !.currentWave = g.currentWave + 1,
                          !.currentState = WAVE_TRANSITION,
                          !.waveTransitionTimer = WAVE_TRANSITION_DURATION,
                          !.score = 0]
           ELSE g

CheckWaveCompletion(g) ==
    LET allAsteroidsDestroyed == \A k \in 1..Len(g.asteroids) : ~g.asteroids[k].active
    IN  IF allAsteroidsDestroyed
           THEN [g EXCEPT !.currentWave = g.currentWave + 1,
                          !.currentState = WAVE_TRANSITION,
                          !.waveTransitionTimer = WAVE_TRANSITION_DURATION]
           ELSE g

\* v.erase(remove_if(...)) without the second argument v.end(): only the
\* element at the new logical end is erased, the rest of the tail stays.
EraseOne(v) ==
    LET live == SelectSeq(v, IsActive)
    IN  IF Len(live) = Len(v) THEN v
        ELSE live \o SubSeq(v, Len(live) + 2, Len(v))

CleanupInactiveObjects_EraseOne(g) ==
    [g EXCEPT !.bullets = EraseOne(g.bullets),
              !.asteroids = EraseOne(g.asteroids)]

\* erase(remove_if(...)) keeps the capacity of the vector.
CleanupInactiveObjects(g) ==
    [g EXCEPT !.bullets = SelectSeq(g.bullets, IsActive),
              !.asteroids = SelectSeq(g.asteroids, IsActive)]

\* Values (x, y, base velocityX, base velocityY) that GetRandomValue offers
\* to one asteroid of a wave, in pixels; the first lies in the exclusion box.
SpawnCandidates ==
    {[x |-> 400, y |-> 300, vx |-> 1, vy |-> 1],
     [x |-> 400, y |-> 150, vx |-> 0, vy |-> 2],
     [x |-> 700, y |-> 300, vx |-> -2, vy |-> 1]}

\* The do-while with an exclusion box of 10 pixels.
SpawnAccepted_Near(c, screenWidth, screenHeight) ==
    ~(Abs(c.x - screenWidth \div 2) < 10 /\ Abs(c.y - screenHeight \div 2) < 10)

\* The do-while resamples while the position is inside the exclusion box.
SpawnAccepted(c, screenWidth, screenHeight) ==
    ~(Abs(c.x - screenWidth \div 2) < 100 /\ Abs(c.y - screenHeight \div 2) < 100)

RECURSIVE SpawnFrom(_, _, _, _)
SpawnFrom(g, i, wave, draws) ==
    IF i > Len(draws) THEN g
    ELSE LET c == draws[i]
             \* speedMultiplier = 1.0 + (wave - 1) * 0.2, applied to whole pixels
             speedMultiplier == Unit + (wave - 1) * (Unit \div 5)
         IN  SpawnFrom(PushBackAsteroid(g, Asteroid(c.x * Unit, c.y * Unit,
                                                    c.vx * speedMultiplier,
                                                    c.vy * speedMultiplier, LARGE)),
                       i + 1, wave, draws)

\* "starts with 4, increases by 2 each wave"
AsteroidCount_ByTwo(wave) == 4 + 2 * (wave - 1)

\* int asteroidCount = 3 + wave
AsteroidCount(wave) == 3 + wave

\* draws: the accepted random values, one entry per asteroid of the wave.
SpawnAsteroidWave(g, wave, draws) ==
    SpawnFrom([g EXCEPT !.asteroids = <<>>], 1, wave, draws)

SpawnDraws(wave, screenWidth, screenHeight) ==
    [1..AsteroidCount(wave) ->
        {c \in SpawnCandidates : SpawnAccepted(c, screenWidth, screenHeight)}]

\* ResetGameState() that clears the high score with the rest.
ResetGameState_All(g) ==
    [g EXCEPT !.score = 0,
              !.highScore = 0,
              !.lives = MAX_LIVES,
              !.currentWave = 1,
              !.waveTransitionTimer = WAVE_TRANSITION_DURATION,
              !.ship = CenteredShip,
              !.bullets = <<>>,
              !.asteroids = <<>>]

ResetGameState(g) ==
    [g EXCEPT !.score = 0,
              !.lives = MAX_LIVES,
              !.currentWave = 1,
              !.waveTransitionTimer = WAVE_TRANSITION_DURATION,
              !.ship = CenteredShip,
              !.bullets = <<>>,
              !.asteroids = <<>>]

\* ------------------------------------------------------------------------
\* main.cpp: construction and the main loop
\* ------------------------------------------------------------------------
\* Contents of highscore.dat found at startup.
StoredScores == {NoFile, <<2000>>}

\* The globals as constructed, before main() runs.
InitStart ==
    /\ currentState = MENU
    /\ score = 0
    /\ lives = 0
    /\ currentWave = 1
    /\ highScore = 0
    /\ waveTransitionTimer = 0
    /\ inputCooldownTimer = 0
    /\ currentScale = 2
    /\ ship = CenteredShip
    /\ bullets = <<>>
    /\ asteroids = <<>>
    /\ asteroidsCapacity = 0
    /\ particles = <<>>
    /\ currentMenuItems = <<>>
    /\ selectedMenuIndex = 0
    /\ exitRequested = FALSE
    /\ shouldExit = FALSE
    /\ menuInitialized = FALSE
    /\ lastMenuContext = MENU
    /\ lastLivesCount = -1
    /\ lastPauseState = PLAYING
    /\ highScoreFile \in StoredScores
    /\ frameTime = 0
    /\ audio = <<>>
    /\ frames = 0
    /\ pc = "load"
    /\ before = Globals
    /\ switchCase = MENU

\* LoadHighScore(), called once before the loop.
LoadHighScore ==
    /\ pc = "load"
    /\ highScore' = IF highScoreFile = NoFile THEN 0 ELSE highScoreFile[1]
    /\ pc' = "frame"
    /\ UNCHANGED <<currentState, score, lives, currentWave, waveTransitionTimer,
                   inputCooldownTimer, currentScale, ship, bullets, asteroids,
                   asteroidsCapacity, particles, currentMenuItems,
                   selectedMenuIndex, exitRequested, shouldExit, menuInitialized,
                   lastMenuContext, lastLivesCount, lastPauseState,
                   highScoreFile, audio, envVars>>

\* The ESC test with PLAYING as its only gameplay state.
EscapeKey_PlayingOnly(g, in) ==
    IF IsKeyPressed(in, KEY_ESCAPE) /\ g.currentState = PLAYING
       THEN [g EXCEPT !.currentState = MENU]
       ELSE g

\* The ESC test with WAVE_TRANSITION among the gameplay states.
EscapeKey_AnyGameplay(g, in) ==
    IF IsKeyPressed(in, KEY_ESCAPE)
       /\ g.currentState \in {PLAYING, WAITING_TO_SPAWN, WAVE_TRANSITION}
       THEN [g EXCEPT !.currentState = MENU]
       ELSE g

\* ESC key handling before the switch.
EscapeKey(g, in) ==
    IF IsKeyPressed(in, KEY_ESCAPE)
       /\ (g.currentState = PLAYING \/ g.currentState = WAITING_TO_SPAWN)
       THEN [g EXCEPT !.currentState = MENU]
       ELSE g

\* The globals when the switch is entered: a new frame has no sound yet.
AtSwitch(in) == EscapeKey([Globals EXCEPT !.audio = <<>>], in)

\* AtSwitch(in).currentState, the state the switch dispatches on.
SwitchState(in) ==
    IF IsKeyPressed(in, KEY_ESCAPE)
       /\ (currentState = PLAYING \/ currentState = WAITING_TO_SPAWN)
       THEN MENU
       ELSE currentState

Steers(in) == currentState = PLAYING /\ in.down \cap SteerKeys # {}
Fires(in) == currentState = PLAYING /\ KEY_SPACE \in in.pressed

\* Top of the loop body: the input source and the clock are sampled once
\* per frame (in, dt).
BeginFrame(in, dt) ==
    /\ pc = "frame"
    /\ ~shouldExit
    /\ frames < MaxFrames
    /\ Steers(in) => frames < MaxSteer
    /\ Fires(in) => Len(bullets) < MaxBullets
    /\ frameTime' = dt
    /\ frames' = frames + 1
    /\ before' = Globals
    /\ switchCase' = SwitchState(in)

\* case MENU with the hazards kept moving behind the menu, as they are in
\* WAITING_TO_SPAWN.
MenuCase_Drifting(in, dt) ==
    /\ SwitchState(in) = MENU
    /\ BeginFrame(in, dt)
    /\ LET g == UpdateAsteroidPhysics(UpdateUnifiedMenu(AtSwitch(in), in))
       IN  Store([g EXCEPT !.shouldExit = g.shouldExit \/ g.exitRequested])
    /\ pc' = "particles"

MenuCase(in, dt) ==
    /\ SwitchState(in) = MENU
    /\ BeginFrame(in, dt)
    /\ LET g == UpdateUnifiedMenu(AtSwitch(in), in)
       IN  Store([g EXCEPT !.shouldExit = g.shouldExit \/ g.exitRequested])
    /\ pc' = "particles"

NewGameConfirmCase(in, dt) ==
    /\ SwitchState(in) = NEW_GAME_CONFIRM
    /\ BeginFrame(in, dt)
    /\ Store(IF IsKeyPressed(in, KEY_Y) THEN StartNewGame(AtSwitch(in))
             ELSE IF IsKeyPressed(in, KEY_N) \/ IsKeyPressed(in, KEY_ESCAPE)
                  THEN [AtSwitch(in) EXCEPT !.currentState = MENU]
                  ELSE AtSwitch(in))
    /\ pc' = "particles"

HighScoresCase(in, dt) ==
    /\ SwitchState(in) = HIGH_SCORES
    /\ BeginFrame(in, dt)
    /\ Store(IF IsKeyPressed(in, KEY_ESCAPE) \/ IsKeyPressed(in, KEY_M)
                \/ IsKeyPressed(in, KEY_ENTER) \/ IsKeyPressed(in, KEY_SPACE)
                THEN [AtSwitch(in) EXCEPT !.currentState = MENU]
                ELSE AtSwitch(in))
    /\ pc' = "particles"

GameOverCase(in, dt) ==
    /\ SwitchState(in) = GAME_OVER
    /\ BeginFrame(in, dt)
    /\ Store(IF IsKeyPressed(in, KEY_R) \/ IsKeyPressed(in, KEY_ENTER)
                THEN [ResetGameState([AtSwitch(in) EXCEPT
                                          !.currentState = WAVE_TRANSITION])
                        EXCEPT !.inputCooldownTimer = BASE_COOLDOWN_DURATION]
             ELSE IF IsKeyPressed(in, KEY_M) \/ IsKeyPressed(in, KEY_ESCAPE)
                  THEN [AtSwitch(in) EXCEPT !.currentState = MENU]
                  ELSE AtSwitch(in))
    /\ pc' = "particles"

\* case WAVE_TRANSITION that spawns the wave on every tick of the countdown.
WaveTransitionCase_SpawnEarly(in, dt) ==
    /\ SwitchState(in) = WAVE_TRANSITION
    /\ BeginFrame(in, dt)
    /\ LET g == [AtSwitch(in) EXCEPT !.waveTransitionTimer = waveTransitionTimer - dt]
       IN  \E draws \in SpawnDraws(currentWave, gameWidth \div Unit,
                                   gameHeight \div Unit) :
              Store(SpawnAsteroidWave(
                        IF g.waveTransitionTimer <= 0
                           THEN [g EXCEPT !.currentState = WAITING_TO_SPAWN]
                           ELSE g,
                        g.currentWave, draws))
    /\ pc' = "particles"

WaveTransitionCase(in, dt) ==
    /\ SwitchState(in) = WAVE_TRANSITION
    /\ BeginFrame(in, dt)
    /\ LET g == [AtSwitch(in) EXCEPT !.waveTransitionTimer = waveTransitionTimer - dt]
       IN  IF g.waveTransitionTimer <= 0
              THEN \E draws \in SpawnDraws(currentWave, gameWidth \div Unit,
                                           gameHeight \div Unit) :
                      Store(SpawnAsteroidWave(
                                [g EXCEPT !.currentState = WAITING_TO_SPAWN],
                                g.currentWave, draws))
              ELSE Store(g)
    /\ pc' = "particles"

\* The keys of the respawn test with the pause key among them.
RespawnKeys_WithPause == {KEY_SPACE, KEY_ENTER, KEY_W, KEY_UP, KEY_A, KEY_LEFT,
                          KEY_S, KEY_DOWN, KEY_D, KEY_RIGHT, KEY_P}

RespawnKeys == {KEY_SPACE, KEY_ENTER, KEY_W, KEY_UP, KEY_A, KEY_LEFT, KEY_S,
                KEY_DOWN, KEY_D, KEY_RIGHT}

\* case WAITING_TO_SPAWN that honours the respawn keys during the cooldown.
WaitingToSpawnCase_NoLockout(in, dt) ==
    /\ SwitchState(in) = WAITING_TO_SPAWN
    /\ BeginFrame(in, dt)
    /\ LET g == IF inputCooldownTimer > 0
                   THEN [AtSwitch(in) EXCEPT !.inputCooldownTimer =
                                                 inputCooldownTimer - dt]
                   ELSE AtSwitch(in)
           g1 == IF in.pressed \cap RespawnKeys # {}
                    THEN [g EXCEPT !.currentState = PLAYING, !.ship = CenteredShip]
                    ELSE g
       IN  Store(UpdateAsteroidPhysics(g1))
    /\ pc' = "particles"

\* case WAITING_TO_SPAWN that returns control without resetting the ship.
WaitingToSpawnCase_KeepShip(in, dt) ==
    /\ SwitchState(in) = WAITING_TO_SPAWN
    /\ BeginFrame(in, dt)
    /\ LET g == IF inputCooldownTimer > 0
                   THEN [AtSwitch(in) EXCEPT !.inputCooldownTimer =
                                                 inputCooldownTimer - dt]
                   ELSE AtSwitch(in)
           g1 == IF g.inputCooldownTimer <= 0 /\ in.pressed \cap RespawnKeys # {}
                    THEN [g EXCEPT !.currentState = PLAYING]
                    ELSE g
       IN  Store(UpdateAsteroidPhysics(g1))
    /\ pc' = "particles"

\* case WAITING_TO_SPAWN that integrates the ship and the bullets as well.
WaitingToSpawnCase_AllPhysics(in, dt) ==
    /\ SwitchState(in) = WAITING_TO_SPAWN
    /\ BeginFrame(in, dt)
    /\ LET g == IF inputCooldownTimer > 0
                   THEN [AtSwitch(in) EXCEPT !.inputCooldownTimer =
                                                 inputCooldownTimer - dt]
                   ELSE AtSwitch(in)
           g1 == IF g.inputCooldownTimer <= 0 /\ in.pressed \cap RespawnKeys # {}
                    THEN [g EXCEPT !.currentState = PLAYING, !.ship = CenteredShip]
                    ELSE g
       IN  Store(UpdateAsteroidPhysics(UpdateBulletPhysics(UpdateShipPhysics(g1))))
    /\ pc' = "particles"

WaitingToSpawnCase(in, dt) ==
    /\ SwitchState(in) = WAITING_TO_SPAWN
    /\ BeginFrame(in, dt)
    /\ LET g == IF inputCooldownTimer > 0
                   THEN [AtSwitch(in) EXCEPT !.inputCooldownTimer =
                                                 inputCooldownTimer - dt]
                   ELSE AtSwitch(in)
           g1 == IF g.inputCooldownTimer <= 0 /\ in.pressed \cap RespawnKeys # {}
                    THEN [g EXCEPT !.currentState = PLAYING, !.ship = CenteredShip]
                    ELSE g
       IN  Store(UpdateAsteroidPhysics(g1))
    /\ pc' = "particles"

\* case PLAYING that tests the pause key after UpdatePlayingPhysics().
PlayingCase_PauseAfterPhysics(in, dt) ==
    /\ SwitchState(in) = PLAYING
    /\ BeginFrame(in, dt)
    /\ \E r \in (IF IsKeyDown(in, KEY_W) \/ IsKeyDown(in, KEY_UP)
                    THEN RandSamples ELSE {0}) :
          LET g == UpdatePlayingPhysics(AtSwitch(in), in, r)
          IN  IF IsKeyPressed(in, KEY_P)
                 THEN /\ Store([g EXCEPT !.currentState = PAUSED])
                      /\ pc' = "particles"
                 ELSE /\ Store(g)
                      /\ pc' = "bullets"

\* case PLAYING up to and including UpdatePlayingPhysics().
PlayingCase(in, dt) ==
    /\ SwitchState(in) = PLAYING
    /\ BeginFrame(in, dt)
    /\ IF IsKeyPressed(in, KEY_P)
          THEN /\ Store([AtSwitch(in) EXCEPT !.currentState = PAUSED])
               /\ pc' = "particles"
          ELSE /\ \E r \in (IF IsKeyDown(in, KEY_W) \/ IsKeyDown(in, KEY_UP)
                               THEN RandSamples ELSE {0}) :
                      Store(UpdatePlayingPhysics(AtSwitch(in), in, r))
               /\ pc' = "bullets"

PausedCase(in, dt) ==
    /\ SwitchState(in) = PAUSED
    /\ BeginFrame(in, dt)
    /\ Store(IF IsKeyPressed(in, KEY_P)
                THEN [AtSwitch(in) EXCEPT !.currentState = PLAYING]
             ELSE LET g == IF lastPauseState # PAUSED
                              THEN [BuildMenuItems(AtSwitch(in), PAUSED)
                                      EXCEPT !.lastPauseState = PAUSED]
                              ELSE AtSwitch(in)
                  IN  UpdateDynamicMenu(g, in))
    /\ pc' = "particles"

\* The random values one hit consumes (the jitters of the two fragments and
\* the value of the particle burst): two runs of the generator.
RandomRuns ==
    {[jitter1 |-> <<-2, 2>>, jitter2 |-> <<2, -1>>, rnd |-> 0],
     [jitter1 |-> <<0, 0>>, jitter2 |-> <<0, 0>>, rnd |-> 100]}
DefaultDraw == [jitter1 |-> <<0, 0>>, jitter2 |-> <<0, 0>>,
                stale |-> "intact", rnd |-> 100]
AllDraws == {[jitter1 |-> d.jitter1, jitter2 |-> d.jitter2, stale |-> o,
              rnd |-> d.rnd] : d \in RandomRuns, o \in StaleOutcomes}

\* A bullet can only hit where an asteroid is, or where the dangling read
\* can have put a fragment.
MayHit(b) ==
    /\ b.active
    /\ \/ FirstInRange(asteroids, 1, b.x, b.y, BulletRadius) # 0
       \/ DistanceLess(b.x, b.y, AsteroidRadius(LARGE) + BulletRadius)

RECURSIVE Tapes(_)
\* One entry per bullet; only a bullet that can hit consumes random values.
Tapes(n) ==
    IF n = 0 THEN {<<>>}
    ELSE {Append(t, d) : t \in Tapes(n - 1),
                         d \in (IF MayHit(bullets[n]) THEN AllDraws ELSE {DefaultDraw})}

BulletCollisionStep ==
    /\ pc = "bullets"
    /\ \E tape \in Tapes(Len(bullets)) :
          Store(HandleBulletAsteroidCollisions(Globals, tape))
    /\ pc' = "ship"
    /\ UNCHANGED envVars

ShipInRange == FirstInRange(asteroids, 1, ship.x, ship.y, ShipRadius) # 0

ShipCollisionStep ==
    /\ pc = "ship"
    /\ \E r \in (IF ShipInRange THEN RandSamples ELSE {0}),
          writable \in (IF ShipInRange /\ lives = 1 /\ score > highScore
                           THEN BOOLEAN ELSE {TRUE}) :
          LET res == HandleShipAsteroidCollisions(Globals, r, writable)
          IN  /\ Store(res.g)
              /\ pc' = IF res.destroyed THEN "particles" ELSE "wave"
    /\ UNCHANGED envVars

\* The wave check run on the compacted populations.
WaveCompletionStep_Compacted ==
    /\ pc = "wave"
    /\ Store(CheckWaveCompletion(CleanupInactiveObjects(Globals)))
    /\ pc' = "cleanup"
    /\ UNCHANGED envVars

WaveCompletionStep ==
    /\ pc = "wave"
    /\ Store(CheckWaveCompletion(Globals))
    /\ pc' = "cleanup"
    /\ UNCHANGED envVars

CleanupStep ==
    /\ pc = "cleanup"
    /\ Store(CleanupInactiveObjects(Globals))
    /\ pc' = "particles"
    /\ UNCHANGED envVars

\* "Update particle system in all states"
ParticleUpdateStep ==
    /\ pc = "particles"
    /\ Store(UpdateParticles(Globals, frameTime))
    /\ pc' = "purge"
    /\ UNCHANGED envVars

ParticleCleanupStep ==
    /\ pc = "purge"
    /\ Store(CleanupParticles(Globals))
    /\ pc' = "draw"
    /\ UNCHANGED envVars

\* The draw switch: only the globals it writes are modelled (the main menu
\* and the pause menu are rebuilt while being drawn).
DrawFrame ==
    /\ pc = "draw"
    /\ Store(CASE currentState = MENU -> DrawUnifiedMenu(Globals)
               [] currentState = PAUSED -> BuildMenuItems(Globals, PAUSED)
               [] OTHER -> Globals)
    /\ frameTime' = 0
    /\ pc' = "frame"
    /\ UNCHANGED <<frames, before, switchCase>>

\* ------------------------------------------------------------------------
\* Sessions in progress
\* ------------------------------------------------------------------------
\* The hazards of a wave-1 session at the end of a respawn frame, with the
\* vector capacity and the score that the play so far has left.  Every
\* scene is a state of the program: a LARGE hazard keeps its integral spawn
\* velocity and drifts (with wrap) along it from a spawn point outside the
\* exclusion box, for as long as the player waits in WAITING_TO_SPAWN; a
\* hazard with velocity 0 is still where it was created; fragments carry
\* the position of their parent and its velocity plus the jitters.  A wave
\* of 4 LARGE hazards is worth 4 * 520 points, of which the score holds the
\* part already destroyed.
Far1 == Asteroid(100 * Unit, 100 * Unit, 0, 0, LARGE)
Far2 == Asteroid(700 * Unit, 100 * Unit, 0, 0, LARGE)
Far3 == Asteroid(100 * Unit, 500 * Unit, 0, 0, LARGE)
Ram1 == Asteroid(400 * Unit, 262 * Unit, 0, 1 * Unit, LARGE)
Ram2 == Asteroid(362 * Unit, 300 * Unit, 1 * Unit, 0, LARGE)

Scenes ==
    { \* a fresh wave; one hazard leaves the centre, in the line of fire
      [asteroids |-> <<Asteroid(400 * Unit, 262 * Unit, 0, -1 * Unit, LARGE),
                       Far1, Far2, Far3>>,
       capacity |-> 4, score |-> 0, lives |-> MAX_LIVES, file |-> NoFile,
       bullets |-> <<>>],
      \* a fresh wave; two hazards are about to touch the ship
      [asteroids |-> <<Ram1, Ram2, Far1, Far2>>,
       capacity |-> 4, score |-> 0, lives |-> MAX_LIVES, file |-> NoFile,
       bullets |-> <<>>],
      \* the last life, two hazards destroyed, one about to touch the ship
      [asteroids |-> <<Ram1, Far1>>,
       capacity |-> 8, score |-> 2 * 520, lives |-> 1, file |-> NoFile,
       bullets |-> <<>>],
      [asteroids |-> <<Ram1, Far1>>,
       capacity |-> 8, score |-> 2 * 520, lives |-> 1, file |-> <<2000>>,
       bullets |-> <<>>],
      \* the last fragments of the wave: one MEDIUM in the line of fire
      [asteroids |-> <<Asteroid(400 * Unit, 272 * Unit, 0, -1 * Unit, MEDIUM)>>,
       capacity |-> 8, score |-> 4 * 520 - 250, lives |-> 3,
       file |-> <<2000>>,
       bullets |-> <<>>],
      \* the last fragment of the wave: one SMALL in the line of fire
      [asteroids |-> <<Asteroid(400 * Unit, 281 * Unit, 0, 0, SMALL)>>,
       capacity |-> 8, score |-> 4 * 520 - 100, lives |-> 1, file |-> NoFile,
       bullets |-> <<>>],
      \* a full vector: in the frame in which the ship was lost a bullet had
      \* split the third LARGE hazard, and that frame skipped the cleanup; the
      \* dead record lies where it was hit, which is now next to the respawned
      \* ship, the spent bullet is still in its vector, and the two fragments
      \* have since drifted once around the field into the line of fire
      [asteroids |-> <<[Asteroid(400 * Unit, 270 * Unit, 0, 1 * Unit, LARGE)
                          EXCEPT !.active = FALSE],
                       Far1,
                       Asteroid(700 * Unit, 100 * Unit, 0, 0, MEDIUM),
                       Asteroid(700 * Unit, 100 * Unit, 0, 0, MEDIUM),
                       Asteroid(100 * Unit, 500 * Unit, 0, 0, MEDIUM),
                       Asteroid(100 * Unit, 500 * Unit, 0, 0, MEDIUM),
                       Asteroid(400 * Unit, 272 * Unit, 0, -1 * Unit, MEDIUM),
                       Asteroid(400 * Unit, 272 * Unit, 0, -1 * Unit, MEDIUM)>>,
       capacity |-> 8, score |-> 3 * 20, lives |-> 3, file |-> NoFile,
       bullets |-> <<[Bullet(400 * Unit, 290 * Unit, 0, -8 * Unit)
                        EXCEPT !.active = FALSE]>>] }

\* A session started from the main menu at program start (New Game with no
\* active game), at the end of a frame that respawned the ship.
InitSession ==
    \E scene \in Scenes :
        /\ currentState = PLAYING
        /\ score = scene.score
        /\ lives = scene.lives
        /\ currentWave = 1
        /\ highScore = IF scene.file = NoFile THEN 0 ELSE scene.file[1]
        /\ waveTransitionTimer = 0
        /\ inputCooldownTimer = 0
        /\ currentScale = 2
        /\ ship = CenteredShip
        /\ bullets = scene.bullets
        /\ asteroids = scene.asteroids
        /\ asteroidsCapacity = scene.capacity
        /\ particles = <<>>
        /\ currentMenuItems =
              MainMenuItems([lives |-> 0, currentScale |-> 2])
        /\ selectedMenuIndex = 0
        /\ exitRequested = FALSE
        /\ shouldExit = FALSE
        /\ menuInitialized = TRUE
        /\ lastMenuContext = MENU
        /\ lastLivesCount = 0
        /\ lastPauseState = PLAYING
        /\ highScoreFile = scene.file
        /\ frameTime = 0
        /\ audio = <<>>
        /\ frames = 0
        /\ pc = "frame"
        /\ before = Globals
        /\ switchCase = WAITING_TO_SPAWN

Init == InitStart \/ InitSession

Next ==
    \/ LoadHighScore
    \/ \E f \in FrameSamples :
          \/ MenuCase(f[1], f[2])
          \/ NewGameConfirmCase(f[1], f[2])
          \/ HighScoresCase(f[1], f[2])
          \/ GameOverCase(f[1], f[2])
          \/ WaveTransitionCase(f[1], f[2])
          \/ WaitingToSpawnCase(f[1], f[2])
          \/ PlayingCase(f[1], f[2])
          \/ PausedCase(f[1], f[2])
    \/ BulletCollisionStep
    \/ ShipCollisionStep
    \/ WaveCompletionStep
    \/ CleanupStep
    \/ ParticleUpdateStep
    \/ ParticleCleanupStep
    \/ DrawFrame

Spec == Init /\ [][Next]_vars

\* ------------------------------------------------------------------------
\* The physics integrators on their own
\* ------------------------------------------------------------------------
\* UpdateShipPhysics(), UpdateAsteroidPhysics() and UpdateParticles() applied
\* to a ship, a hazard and a particle near the edges of the field, at
\* velocities up to twice the extent of the field per frame.  The ship's
\* velocity is within what HandleShipInput() can add to the limit of 8; a
\* particle is created at an offset from the ship or the hazard, which can
\* lie outside the field.
EdgePositions(extent) == {0, 3 * Unit, extent - 3 * Unit, extent}
ShipVelocities == <<-850, -300, 0, 300, 850>>
FastVelocities(extent) == <<-2 * extent, -300, 0, 300, 2 * extent>>
ParticleOffsets == {-20 * Unit, 0, 20 * Unit}

InitPhysics ==
    \E px \in EdgePositions(gameWidth), py \in EdgePositions(gameHeight),
       i \in 1..Len(ShipVelocities), j \in 1..Len(ShipVelocities),
       d \in ParticleOffsets :
        /\ currentState = PLAYING
        /\ score = 0
        /\ lives = MAX_LIVES
        /\ currentWave = 1
        /\ highScore = 0
        /\ waveTransitionTimer = 0
        /\ inputCooldownTimer = 0
        /\ currentScale = 2
        /\ ship = [CenteredShip EXCEPT !.x = px, !.y = py,
                                       !.velocityX = ShipVelocities[i],
                                       !.velocityY = ShipVelocities[j]]
        /\ bullets = <<>>
        /\ asteroids = <<Asteroid(px, py, FastVelocities(gameWidth)[i],
                                  FastVelocities(gameHeight)[j], LARGE)>>
        /\ asteroidsCapacity = 4
        /\ particles = <<Particle(px + d, py + d, FastVelocities(gameWidth)[i],
                                  FastVelocities(gameHeight)[j], 2 * Unit, 2 * Unit)>>
        /\ currentMenuItems = MainMenuItems([lives |-> 0, currentScale |-> 2])
        /\ selectedMenuIndex = 0
        /\ exitRequested = FALSE
        /\ shouldExit = FALSE
        /\ menuInitialized = TRUE
        /\ lastMenuContext = MENU
        /\ lastLivesCount = 0
        /\ lastPauseState = PLAYING
        /\ highScoreFile = NoFile
        /\ frameTime = Tick
        /\ audio = <<>>
        /\ frames = 0
        /\ pc = "integrate ship"
        /\ before = Globals
        /\ switchCase = PLAYING

IntegrateShip ==
    /\ pc = "integrate ship"
    /\ frames < MaxFrames
    /\ Store(UpdateShipPhysics(Globals))
    /\ frames' = frames + 1
    /\ pc' = "integrate hazards"
    /\ UNCHANGED <<frameTime, before, switchCase>>

IntegrateHazards ==
    /\ pc = "integrate hazards"
    /\ Store(UpdateAsteroidPhysics(Globals))
    /\ pc' = "integrate particles"
    /\ UNCHANGED envVars

IntegrateParticles ==
    /\ pc = "integrate particles"
    /\ Store(UpdateParticles(Globals, frameTime))
    /\ pc' = "integrate ship"
    /\ UNCHANGED envVars

NextPhysics == IntegrateShip \/ IntegrateHazards \/ IntegrateParticles

SpecPhysics == InitPhysics /\ [][NextPhysics]_vars

\* ------------------------------------------------------------------------
\* Bullets at the edges of the field
\* ------------------------------------------------------------------------
\* UpdateBulletPhysics() and HandleBulletAsteroidCollisions() applied to a
\* bullet that HandleShipInput() has just created at the position of a ship
\* on or next to an edge, with a hazard overlapping the ship.  The bullet
\* carries the velocity of the ship plus 8 along the heading, so between 0
\* and 16 per frame on each axis.
BulletVelocities == <<-16 * Unit, -8 * Unit, 0, 8 * Unit, 16 * Unit>>

InitBullets ==
    \E px \in EdgePositions(gameWidth), py \in EdgePositions(gameHeight),
       i \in 1..Len(BulletVelocities), j \in 1..Len(BulletVelocities) :
        /\ currentState = PLAYING
        /\ score = 0
        /\ lives = MAX_LIVES
        /\ currentWave = 1
        /\ highScore = 0
        /\ waveTransitionTimer = 0
        /\ inputCooldownTimer = 0
        /\ currentScale = 2
        /\ ship = [CenteredShip EXCEPT !.x = px, !.y = py]
        /\ bullets = <<Bullet(px, py, BulletVelocities[i], BulletVelocities[j])>>
        /\ asteroids = <<Asteroid(px, py, 0, 0, LARGE)>>
        /\ asteroidsCapacity = 4
        /\ particles = <<>>
        /\ currentMenuItems = MainMenuItems([lives |-> 0, currentScale |-> 2])
        /\ selectedMenuIndex = 0
        /\ exitRequested = FALSE
        /\ shouldExit = FALSE
        /\ menuInitialized = TRUE
        /\ lastMenuContext = MENU
        /\ lastLivesCount = 0
        /\ lastPauseState = PLAYING
        /\ highScoreFile = NoFile
        /\ frameTime = Tick
        /\ audio = <<>>
        /\ frames = 0
        /\ pc = "integrate bullets"
        /\ before = Globals
        /\ switchCase = PLAYING

IntegrateBullets ==
    /\ pc = "integrate bullets"
    /\ frames < MaxFrames
    /\ Store(UpdateBulletPhysics(Globals))
    /\ frames' = frames + 1
    /\ pc' = "collide bullets"
    /\ UNCHANGED <<frameTime, before, switchCase>>

CollideBullets ==
    /\ pc = "collide bullets"
    /\ \E tape \in Tapes(Len(bullets)) :
          Store(HandleBulletAsteroidCollisions(Globals, tape))
    /\ pc' = "integrate bullets"
    /\ UNCHANGED envVars

NextBullets == IntegrateBullets \/ CollideBullets

SpecBullets == InitBullets /\ [][NextBullets]_vars

\* ------------------------------------------------------------------------
\* The life of a burst of particles
\* ------------------------------------------------------------------------
\* The main loop followed from a state that holds a burst of particles, in
\* each of the eight session states, with no key pressed, until the last
\* particle has been purged.  The loop runs one tick after the other for as
\* long as the window is open, which is the fairness assumed.
EmptyGlobals == [particles |-> <<>>]

\* The bursts that thrust and the explosion of a SMALL hazard leave behind
\* (lifetimes of 0.3 to 0.8 seconds).
Bursts ==
    {CreateThrustParticles(EmptyGlobals, CenteredShip.x, CenteredShip.y, 0, r).particles
        : r \in RandSamples}
    \cup {CreateExplosionParticles(EmptyGlobals, Far1.x, Far1.y, SMALL, r).particles
        : r \in RandSamples}

InitParticles ==
    \E state \in GameState, burst \in Bursts :
        /\ currentState = state
        /\ score = 0
        /\ lives = IF state = GAME_OVER THEN 0 ELSE MAX_LIVES - 1
        /\ currentWave = 1
        /\ highScore = 0
        /\ waveTransitionTimer =
              IF state = WAVE_TRANSITION THEN WAVE_TRANSITION_DURATION ELSE 0
        /\ inputCooldownTimer =
              IF state = WAITING_TO_SPAWN THEN BASE_COOLDOWN_DURATION ELSE 0
        /\ currentScale = 2
        /\ ship = CenteredShip
        /\ bullets = <<>>
        /\ asteroids = IF state = WAVE_TRANSITION THEN <<>> ELSE <<Far1, Far2, Far3>>
        /\ asteroidsCapacity = 4
        /\ particles = burst
        /\ currentMenuItems = MainMenuItems([lives |-> 0, currentScale |-> 2])
        /\ selectedMenuIndex = 0
        /\ exitRequested = FALSE
        /\ shouldExit = FALSE
        /\ menuInitialized = TRUE
        /\ lastMenuContext = MENU
        /\ lastLivesCount = 0
        /\ lastPauseState = PLAYING
        /\ highScoreFile = NoFile
        /\ frameTime = 0
        /\ audio = <<>>
        /\ frames = 0
        /\ pc = "frame"
        /\ before = Globals
        /\ switchCase = state

\* The update switch of a tick in which no key is pressed: each case of
\* main() with every IsKeyPressed() and IsKeyDown() false.
QuietSwitch(g, dt, draws) ==
    CASE g.currentState = MENU ->
            LET m == UpdateUnifiedMenu(g, NoKeys)
            IN  [m EXCEPT !.shouldExit = m.shouldExit \/ m.exitRequested]
      [] g.currentState \in {NEW_GAME_CONFIRM, HIGH_SCORES, GAME_OVER} -> g
      [] g.currentState = WAVE_TRANSITION ->
            LET g1 == [g EXCEPT !.waveTransitionTimer = g.waveTransitionTimer - dt]
            IN  IF g1.waveTransitionTimer <= 0
                   THEN SpawnAsteroidWave([g1 EXCEPT !.currentState = WAITING_TO_SPAWN],
                                          g1.currentWave, draws)
                   ELSE g1
      [] g.currentState = WAITING_TO_SPAWN ->
            UpdateAsteroidPhysics(
                IF g.inputCooldownTimer > 0
                   THEN [g EXCEPT !.inputCooldownTimer = g.inputCooldownTimer - dt]
                   ELSE g)
      [] g.currentState = PLAYING ->
            LET g1 == HandleBulletAsteroidCollisions(
                          UpdatePlayingPhysics(g, NoKeys, 0),
                          [b \in 1..Len(g.bullets) |-> DefaultDraw])
                res == HandleShipAsteroidCollisions(g1, 0, TRUE)
            IN  IF res.destroyed THEN res.g
                ELSE CleanupInactiveObjects(CheckWaveCompletion(res.g))
      [] g.currentState = PAUSED ->
            UpdateDynamicMenu(
                IF g.lastPauseState # PAUSED
                   THEN [BuildMenuItems(g, PAUSED) EXCEPT !.lastPauseState = PAUSED]
                   ELSE g,
                NoKeys)

QuietTick(dt) ==
    /\ pc = "frame"
    /\ particles # <<>>
    /\ \E draws \in (IF currentState = WAVE_TRANSITION
                        THEN SpawnDraws(currentWave, gameWidth \div Unit,
                                        gameHeight \div Unit)
                        ELSE {<<>>}) :
          Store(QuietSwitch(AtSwitch(NoKeys), dt, draws))
    /\ frameTime' = dt
    /\ before' = Globals
    /\ switchCase' = currentState
    /\ pc' = "particles"
    /\ UNCHANGED frames

NextParticles ==
    \/ \E dt \in {Tick, Hitch} : QuietTick(dt)
    \/ ParticleUpdateStep
    \/ ParticleCleanupStep
    \/ DrawFrame

\* One pass of the main loop begins: the loop runs while the window is open,
\* so an iteration that can begin does begin.  Of the steps of NextParticles
\* only QuietTick leaves "frame", and it is enabled exactly when this is.
LoopIteration == pc = "frame" /\ particles # <<>> /\ pc' = "particles"

\* Within an iteration the particle update, the purge and the drawing follow
\* the switch unconditionally.
SpecParticles ==
    /\ InitParticles
    /\ [][NextParticles]_vars
    /\ WF_pc(LoopIteration)
    /\ WF_vars(ParticleUpdateStep)
    /\ WF_vars(ParticleCleanupStep)
    /\ WF_vars(DrawFrame)

\* ------------------------------------------------------------------------
\* The countdown between waves
\* ------------------------------------------------------------------------
\* The main loop followed from the entry into WAVE_TRANSITION (a new game,
\* or wave 1 completed with 4 * 520 points) for as many ticks as the
\* countdown takes, with every key sample offered to every tick, until the
\* tick that has left WAVE_TRANSITION is drawn.
InitTransition ==
    \E wave \in {1, 2} :
        /\ currentState = WAVE_TRANSITION
        /\ score = IF wave = 1 THEN 0 ELSE 520 * AsteroidCount(1)
        /\ lives = MAX_LIVES
        /\ currentWave = wave
        /\ highScore = 0
        /\ waveTransitionTimer = WAVE_TRANSITION_DURATION
        /\ inputCooldownTimer = 0
        /\ currentScale = 2
        /\ ship = CenteredShip
        /\ bullets = <<>>
        /\ asteroids = <<>>
        /\ asteroidsCapacity = IF wave = 1 THEN 0 ELSE 8
        /\ particles = <<>>
        /\ currentMenuItems = MainMenuItems([lives |-> 0, currentScale |-> 2])
        /\ selectedMenuIndex = 0
        /\ exitRequested = FALSE
        /\ shouldExit = FALSE
        /\ menuInitialized = TRUE
        /\ lastMenuContext = MENU
        /\ lastLivesCount = 0
        /\ lastPauseState = PLAYING
        /\ highScoreFile = NoFile
        /\ frameTime = 0
        /\ audio = <<>>
        /\ frames = 0
        /\ pc = "frame"
        /\ before = Globals
        /\ switchCase = WAVE_TRANSITION

\* One pass of the loop body that begins in WAVE_TRANSITION: the ESC test,
\* then the switch.  Were the ESC test to move the state, the switch would
\* run the case of that state, of which only the state is kept here.
TransitionTick(in, dt) ==
    /\ pc = "frame"
    /\ currentState = WAVE_TRANSITION
    /\ LET g0 == AtSwitch(in)
           g == [g0 EXCEPT !.waveTransitionTimer = waveTransitionTimer - dt]
       IN  /\ IF g0.currentState # WAVE_TRANSITION
                 THEN Store(g0)
              ELSE IF g.waveTransitionTimer <= 0
                 THEN \E draws \in SpawnDraws(currentWave, gameWidth \div Unit,
                                              gameHeight \div Unit) :
                         Store(SpawnAsteroidWave(
                                   [g EXCEPT !.currentState = WAITING_TO_SPAWN],
                                   g.currentWave, draws))
                 ELSE Store(g)
           /\ switchCase' = g0.currentState
    /\ frameTime' = dt
    /\ before' = Globals
    /\ pc' = "particles"
    /\ UNCHANGED frames

NextTransition ==
    \/ \E f \in FrameSamples : TransitionTick(f[1], f[2])
    \/ ParticleUpdateStep
    \/ ParticleCleanupStep
    \/ DrawFrame

\* The loop runs while the window is open: an iteration that can begin in
\* WAVE_TRANSITION does begin (of the steps of NextTransition only
\* TransitionTick leaves "frame", and it is enabled exactly when this is).
TransitionIteration ==
    pc = "frame" /\ currentState = WAVE_TRANSITION /\ pc' = "particles"

SpecTransition ==
    /\ InitTransition
    /\ [][NextTransition]_vars
    /\ WF_pc(TransitionIteration)
    /\ WF_vars(ParticleUpdateStep)
    /\ WF_vars(ParticleCleanupStep)
    /\ WF_vars(DrawFrame)

\* ------------------------------------------------------------------------
\* A wave shot down
\* ------------------------------------------------------------------------
\* The first wave of a new game played from the respawn to its completion:
\* every tick of PLAYING brings up to MaxBullets bullets onto live hazards,
\* the largest first, and then runs the collision handlers, the wave check
\* and the cleanup.  The hazards were spawned at rest (base velocity
\* 0) and the fragments draw jitter 0, so a hazard stays where it was
\* created; the ship stays at the centre.  Every tick is a long one, which
\* ages the debris of its hits away before the next.
WaveOne == <<Far1, Far2, Far3, Asteroid(700 * Unit, 500 * Unit, 0, 0, LARGE)>>

InitWave ==
    /\ currentState = PLAYING
    /\ score = 0
    /\ lives = MAX_LIVES
    /\ currentWave = 1
    /\ highScore = 0
    /\ waveTransitionTimer = 0
    /\ inputCooldownTimer = 0
    /\ currentScale = 2
    /\ ship = CenteredShip
    /\ bullets = <<>>
    /\ asteroids = WaveOne
    /\ asteroidsCapacity = 4
    /\ particles = <<>>
    /\ currentMenuItems = MainMenuItems([lives |-> 0, currentScale |-> 2])
    /\ selectedMenuIndex = 0
    /\ exitRequested = FALSE
    /\ shouldExit = FALSE
    /\ menuInitialized = TRUE
    /\ lastMenuContext = MENU
    /\ lastLivesCount = 0
    /\ lastPauseState = PLAYING
    /\ highScoreFile = NoFile
    /\ frameTime = 0
    /\ audio = <<>>
    /\ frames = 0
    /\ pc = "frame"
    /\ before = Globals
    /\ switchCase = PLAYING

\* The indices of the live hazards of a size class, in vector order.
LiveOfSize(size) ==
    LET OfClass(k) == asteroids[k].active /\ asteroids[k].size = size
    IN  SelectSeq([k \in 1..Len(asteroids) |-> k], OfClass)

\* The order in which the player takes the hazards on: the largest first.
Targets == LiveOfSize(LARGE) \o LiveOfSize(MEDIUM) \o LiveOfSize(SMALL)

\* How far from the centre of a hazard of the class a bullet lands: within
\* the reach of the class (radius + 2) and beyond that of the next smaller,
\* so that a smaller hazard lying at the same place is not the one hit.
AimOffset(size) ==
    CASE size = LARGE -> 25 * Unit
      [] size = MEDIUM -> 15 * Unit
      [] size = SMALL -> 0

\* The outcomes of the dangling read, with jitter 0.
StaleDraws == {[DefaultDraw EXCEPT !.stale = o] : o \in StaleOutcomes}

\* case PLAYING up to and including HandleBulletAsteroidCollisions(), at the
\* point where the physics update has carried n bullets in flight onto
\* their targets, the first n of Targets.
WaveFire(n, tape) ==
    /\ pc = "frame"
    /\ currentState = PLAYING
    /\ n <= Len(Targets)
    /\ LET arrived == [k \in 1..n |->
                          LET target == asteroids[Targets[k]]
                          IN  Bullet(target.x + AimOffset(target.size), target.y,
                                     0, -8 * Unit)]
       IN  Store(HandleBulletAsteroidCollisions(
                     [Globals EXCEPT !.audio = <<>>, !.bullets = arrived], tape))
    /\ frameTime' = Hitch
    /\ pc' = "ship"
    /\ UNCHANGED <<frames, before, switchCase>>

NextWave ==
    \/ \E n \in 1..MaxBullets :
          \E tape \in [1..n -> StaleDraws] : WaveFire(n, tape)
    \/ ShipCollisionStep
    \/ WaveCompletionStep
    \/ CleanupStep
    \/ ParticleUpdateStep
    \/ ParticleCleanupStep
    \/ DrawFrame

SpecWave == InitWave /\ [][NextWave]_vars

\* ------------------------------------------------------------------------
\* The collisions of one tick
\* ------------------------------------------------------------------------
\* A tick of PLAYING from the return of UpdatePlayingPhysics() to its end,
\* the tick after a respawn: a hazard has drifted to 20, 33 or 60 pixels
\* above the centre of the field while the player waited, the ship is at
\* the centre, and the player has or has not fired (the bullet is 8 pixels
\* up from the ship, which is within reach of the LARGE hazard at 20 and 33
\* pixels and of the MEDIUM one at 20).
NearbyDistances == {20, 33, 60}

\* Score and stored high score: a first game, and a game 10 points short of
\* the record.
Standings == {<<0, NoFile>>, <<1990, <<2000>>>>}

InitCollisions ==
    \E size \in {LARGE, MEDIUM}, d \in NearbyDistances, fired \in BOOLEAN,
       left \in {1, 2}, standing \in Standings :
        /\ currentState = PLAYING
        /\ score = standing[1]
        /\ lives = left
        /\ currentWave = 1
        /\ highScore = IF standing[2] = NoFile THEN 0 ELSE standing[2][1]
        /\ waveTransitionTimer = 0
        /\ inputCooldownTimer = 0
        /\ currentScale = 2
        /\ ship = CenteredShip
        /\ bullets = IF fired
                        THEN <<Bullet(CenteredShip.x, CenteredShip.y - 8 * Unit,
                                      0, -8 * Unit)>>
                        ELSE <<>>
        /\ asteroids = <<Asteroid(CenteredShip.x, CenteredShip.y - d * Unit,
                                  0, 0, size), Far1>>
        /\ asteroidsCapacity = 4
        /\ particles = <<>>
        /\ currentMenuItems = MainMenuItems([lives |-> 0, currentScale |-> 2])
        /\ selectedMenuIndex = 0
        /\ exitRequested = FALSE
        /\ shouldExit = FALSE
        /\ menuInitialized = TRUE
        /\ lastMenuContext = MENU
        /\ lastLivesCount = 0
        /\ lastPauseState = PLAYING
        /\ highScoreFile = standing[2]
        /\ frameTime = Tick
        /\ audio = <<>>
        /\ frames = 1
        /\ pc = "bullets"
        /\ before = Globals
        /\ switchCase = PLAYING

NextCollisions ==
    \/ BulletCollisionStep
    \/ ShipCollisionStep
    \/ WaveCompletionStep
    \/ CleanupStep
    \/ ParticleUpdateStep
    \/ ParticleCleanupStep
    \/ DrawFrame

SpecCollisions == InitCollisions /\ [][NextCollisions]_vars

\* ------------------------------------------------------------------------
\* The placing of a wave
\* ------------------------------------------------------------------------
\* SpawnAsteroidWave() followed one asteroid at a time, from the return of
\* asteroids.clear() in the WAVE_TRANSITION tick whose timer has run out.
\* GetRandomValue(0, screenWidth) and GetRandomValue(0, screenHeight) offer
\* the corners of the field, the centre, and positions one pixel inside and
\* on the border of the exclusion box.
SpawnPositions ==
    {[x |-> 0, y |-> 0, vx |-> 1, vy |-> -2],
     [x |-> 800, y |-> 600, vx |-> -1, vy |-> 0],
     [x |-> 400, y |-> 300, vx |-> 1, vy |-> 1],
     [x |-> 301, y |-> 201, vx |-> 2, vy |-> 1],
     [x |-> 499, y |-> 399, vx |-> 0, vy |-> -1],
     [x |-> 300, y |-> 300, vx |-> 2, vy |-> 0],
     [x |-> 400, y |-> 200, vx |-> 0, vy |-> 2],
     [x |-> 500, y |-> 399, vx |-> -2, vy |-> -2]}

InitSpawn ==
    \E wave \in {1, 2} :
        /\ currentState = WAITING_TO_SPAWN
        /\ score = IF wave = 1 THEN 0 ELSE 520 * AsteroidCount(1)
        /\ lives = MAX_LIVES
        /\ currentWave = wave
        /\ highScore = 0
        /\ waveTransitionTimer = 0
        /\ inputCooldownTimer = 0
        /\ currentScale = 2
        /\ ship = CenteredShip
        /\ bullets = <<>>
        /\ asteroids = <<>>
        /\ asteroidsCapacity = IF wave = 1 THEN 0 ELSE 8
        /\ particles = <<>>
        /\ currentMenuItems = MainMenuItems([lives |-> 0, currentScale |-> 2])
        /\ selectedMenuIndex = 0
        /\ exitRequested = FALSE
        /\ shouldExit = FALSE
        /\ menuInitialized = TRUE
        /\ lastMenuContext = MENU
        /\ lastLivesCount = 0
        /\ lastPauseState = PLAYING
        /\ highScoreFile = NoFile
        /\ frameTime = Tick
        /\ audio = <<>>
        /\ frames = 0
        /\ pc = "spawn"
        /\ before = Globals
        /\ switchCase = WAVE_TRANSITION

\* One pass of the for loop: the do-while ends on the first position that
\* it accepts, and the asteroid is pushed there.
SpawnIteration ==
    /\ pc = "spawn"
    /\ Len(asteroids) < AsteroidCount(currentWave)
    /\ \E c \in SpawnPositions :
          /\ SpawnAccepted(c, gameWidth \div Unit, gameHeight \div Unit)
          /\ Store(SpawnFrom(Globals, 1, currentWave, <<c>>))
    /\ UNCHANGED <<pc, envVars>>

\* i == asteroidCount: the function returns and the case breaks.
SpawnReturn ==
    /\ pc = "spawn"
    /\ Len(asteroids) = AsteroidCount(currentWave)
    /\ pc' = "particles"
    /\ UNCHANGED <<simVars, envVars>>

NextSpawn ==
    \/ SpawnIteration
    \/ SpawnReturn
    \/ ParticleUpdateStep
    \/ ParticleCleanupStep
    \/ DrawFrame

SpecSpawn == InitSpawn /\ [][NextSpawn]_vars

\* ------------------------------------------------------------------------
\* Properties
\* ------------------------------------------------------------------------
\* A frame has run to its end; `before` holds the globals it began with.
FrameDone == pc = "frame" /\ frames > 0

MenuLike(state) ==
    state \in {PAUSED, MENU, NEW_GAME_CONFIRM, HIGH_SCORES, GAME_OVER}

\* Position and velocity of one entity, and of a population.
Motion(o) == <<o.x, o.y, o.velocityX, o.velocityY>>
Motions(population) == [k \in 1..Len(population) |-> Motion(population[k])]
Lifetimes(population) == [k \in 1..Len(population) |-> population[k].life]

\* A frame that began and ended in PAUSED or in a menu-like state.
FrozenFrame ==
    FrameDone /\ MenuLike(before.currentState) /\ MenuLike(currentState)

ShipAndHazardsKept ==
    /\ Motion(ship) = Motion(before.ship)
    /\ Motions(bullets) = Motions(before.bullets)
    /\ Motions(asteroids) = Motions(before.asteroids)

TimersKept ==
    /\ waveTransitionTimer = before.waveTransitionTimer
    /\ inputCooldownTimer = before.inputCooldownTimer

ParticlesKept ==
    /\ Motions(particles) = Motions(before.particles)
    /\ Lifetimes(particles) = Lifetimes(before.particles)

BulletStep == pc = "bullets" /\ pc' = "ship"

\* Hazard k of the population after the step was destroyed by the step.
DestroyedNow(k) ==
    /\ ~asteroids'[k].active
    /\ k > Len(asteroids) \/ asteroids[k].active

\* The hazards the step destroyed that were not SMALL.
ParentsNow ==
    {k \in 1..Len(asteroids') : DestroyedNow(k) /\ asteroids'[k].size # SMALL}

\* The hazards the step added.
AddedNow == (Len(asteroids) + 1)..Len(asteroids')

Within2(a, b) == Abs(a - b) <= 2 * Unit

ChildOf(child, parent) ==
    /\ child.size = parent.size - 1
    /\ child.x = parent.x
    /\ child.y = parent.y
    /\ Within2(child.velocityX, parent.velocityX)
    /\ Within2(child.velocityY, parent.velocityY)

\* C2: a LARGE or MEDIUM hazard destroyed by a bullet is no longer live, and
\* the step adds exactly two hazards for it, each one size class smaller, at
\* the parent's position and with each velocity component within 2 of the
\* parent's; an added hazard is live unless a later bullet of the same step
\* destroyed it.
C2_SplitsInTwo ==
    [][BulletStep =>
          /\ Len(asteroids') = Len(asteroids) + 2 * Cardinality(ParentsNow)
          /\ \A j \in AddedNow :
                /\ asteroids'[j].active \/ DestroyedNow(j)
                /\ \E p \in ParentsNow :
                      p < j /\ ChildOf(asteroids'[j], asteroids'[p])]_vars

\* C3: a step that destroys only SMALL hazards adds none, and every hazard
\* added by fragmentation is of a smaller size class than a parent destroyed
\* in that step.
C3_SizeDecreases ==
    [][BulletStep =>
          /\ ParentsNow = {} => Len(asteroids') = Len(asteroids)
          /\ \A j \in AddedNow :
                \E p \in ParentsNow :
                    p < j /\ asteroids'[j].size < asteroids'[p].size]_vars


\* The bracket of a size class.
Bracket(size) ==
    CASE size = LARGE -> 20 [] size = MEDIUM -> 50 [] size = SMALL -> 100

RECURSIVE SumOfBrackets(_, _)
\* The brackets of the hazards with index in `left`, in population `hazards`.
SumOfBrackets(hazards, left) ==
    IF left = {} THEN 0
    ELSE LET k == CHOOSE i \in left : TRUE
         IN  Bracket(hazards[k].size) + SumOfBrackets(hazards, left \ {k})

\* C4: the step that handles the bullet-hazard collisions adds to the score
\* the bracket (LARGE 20, MEDIUM 50, SMALL 100) of every hazard it destroys,
\* and no other step of the program increases the score.
C4_ScoreByBracket ==
    [][/\ BulletStep =>
             score' = score + SumOfBrackets(asteroids',
                              {k \in 1..Len(asteroids') : DestroyedNow(k)})
       /\ score' > score => BulletStep]_vars

\* A bullet has just destroyed a MEDIUM hazard and the score is up by 50.
C4_Witness ==
    /\ pc = "ship"
    /\ score = before.score + 50
    /\ \E k \in 1..Len(asteroids) :
          ~asteroids[k].active /\ asteroids[k].size = MEDIUM
    /\ \E b \in 1..Len(bullets) : ~bullets[b].active


\* The step resets the session, as StartNewGame() and ResetGameState() do.
SessionReset ==
    /\ pc = "frame"
    /\ score' = 0
    /\ lives' = MAX_LIVES
    /\ currentWave' = 1
    /\ asteroids' = <<>>
    /\ bullets' = <<>>

\* C5: the score is never negative, and no step other than the reset of the
\* session (StartNewGame, ResetGameState) makes it smaller.
C5_ScoreMonotone ==
    /\ [](score >= 0)
    /\ [][score' < score => SessionReset]_vars

\* A session with points on the board has ended a frame with more of them.
C5_Witness ==
    /\ FrameDone
    /\ before.score > 0
    /\ score > before.score
    /\ currentState = WAVE_TRANSITION


\* C6: lives is always within 0..MAX_LIVES, and a frame that began with a
\* life left and lost the last one ends in GAME_OVER.
C6_LivesBounded ==
    /\ lives \in 0..MAX_LIVES
    /\ (FrameDone /\ before.lives > 0 /\ lives = 0) => currentState = GAME_OVER

\* The frame began in PLAYING with one life, a hazard touched the ship, and
\* the frame has ended in GAME_OVER without lives.
C6_Witness ==
    /\ FrameDone
    /\ before.currentState = PLAYING
    /\ before.lives = 1
    /\ lives = 0
    /\ currentState = GAME_OVER
    /\ <<"ShipExplosion">> \in {audio[k] : k \in 1..Len(audio)}


\* Hazard a is live and its centre is closer to the ship's than the sum of
\* the two radii (LARGE 30, MEDIUM 20, SMALL 10; ship 8).
TouchesShip(a) ==
    LET reach == (CASE a.size = LARGE -> 30 [] a.size = MEDIUM -> 20
                    [] OTHER -> 10) * Unit + 8 * Unit
        dx == ship.x - a.x
        dy == ship.y - a.y
    IN  /\ a.active
        /\ Abs(dx) < reach
        /\ Abs(dy) < reach
        /\ dx * dx + dy * dy < reach * reach

HazardsTouching == {k \in 1..Len(asteroids) : TouchesShip(asteroids[k])}

\* The step that runs HandleShipAsteroidCollisions().
ShipStep == pc = "ship" /\ pc' # "ship"

Liveness(hazards) == [k \in 1..Len(hazards) |-> hazards[k].active]

\* C7: when the ship touches one or more live hazards while lives > 1, the
\* collision step takes exactly one life, sets the state to WAITING_TO_SPAWN
\* and the input cooldown to BASE_COOLDOWN_DURATION, and changes no hazard's
\* liveness flag.
C7_LoseOneLife ==
    [][(ShipStep /\ HazardsTouching # {} /\ lives > 1) =>
          /\ lives' = lives - 1
          /\ currentState' = WAITING_TO_SPAWN
          /\ inputCooldownTimer' = BASE_COOLDOWN_DURATION
          /\ Liveness(asteroids') = Liveness(asteroids)]_vars

\* The ship overlapped two live hazards and has lost one of its four lives.
C7_Witness ==
    /\ pc = "particles"
    /\ before.currentState = PLAYING
    /\ before.lives = MAX_LIVES
    /\ lives = MAX_LIVES - 1
    /\ currentState = WAITING_TO_SPAWN
    /\ inputCooldownTimer = BASE_COOLDOWN_DURATION
    /\ Cardinality(HazardsTouching) >= 2


\* C8: when the ship touches a live hazard while lives = 1, the collision
\* step sets lives to 0 and the state to GAME_OVER, and the high score
\* becomes the score if the score is greater than it and is unchanged
\* otherwise; highscore.dat is written only in the first case, with the score.
C8_LastLife ==
    [][(ShipStep /\ HazardsTouching # {} /\ lives = 1) =>
          /\ lives' = 0
          /\ currentState' = GAME_OVER
          /\ highScore' = IF score > highScore THEN score ELSE highScore
          /\ highScoreFile' # highScoreFile =>
                score > highScore /\ highScoreFile' = <<score>>]_vars

\* The last life was lost with a score above the high score, which has
\* taken its value, in memory and in the file.
C8_Witness ==
    /\ pc = "particles"
    /\ before.currentState = PLAYING
    /\ before.lives = 1
    /\ lives = 0
    /\ currentState = GAME_OVER
    /\ score > before.highScore
    /\ highScore = score
    /\ highScoreFile = <<score>>
    /\ before.highScoreFile = NoFile

\* The last life was lost with a score below the high score, which is kept.
C8_WitnessKept ==
    /\ pc = "particles"
    /\ before.lives = 1
    /\ lives = 0
    /\ currentState = GAME_OVER
    /\ score < highScore
    /\ highScore = before.highScore


\* The step that runs CheckWaveCompletion(): it is reached only in a PLAYING
\* frame whose collision handling found no ship-hazard collision.
WaveStep == pc = "wave" /\ pc' = "cleanup"

AnyHazardLive == \E k \in 1..Len(asteroids) : asteroids[k].active

\* C9: in a PLAYING frame without a ship-hazard collision, the wave check
\* that finds no live hazard sets the state to WAVE_TRANSITION, adds one to
\* the wave counter and sets the wave-transition timer to
\* WAVE_TRANSITION_DURATION, and the frame ends so; the wave check that finds
\* a live hazard leaves the state and the wave counter as they are.
C9_WaveCompletion ==
    /\ [][WaveStep =>
             /\ currentState = PLAYING
             /\ HazardsTouching = {}
             /\ IF AnyHazardLive
                   THEN currentState' = currentState /\ currentWave' = currentWave
                   ELSE /\ currentState' = WAVE_TRANSITION
                        /\ currentWave' = currentWave + 1
                        /\ waveTransitionTimer' = WAVE_TRANSITION_DURATION]_vars
    /\ []((FrameDone /\ before.currentState = PLAYING
                     /\ currentState = WAVE_TRANSITION) =>
             /\ currentWave = before.currentWave + 1
             /\ waveTransitionTimer = WAVE_TRANSITION_DURATION
             /\ ~AnyHazardLive)

\* The wave check has just found the last hazard of wave 1 destroyed.
C9_Witness ==
    /\ pc = "cleanup"
    /\ before.currentState = PLAYING
    /\ before.currentWave = 1
    /\ Len(asteroids) > 0
    /\ ~AnyHazardLive
    /\ currentState = WAVE_TRANSITION
    /\ currentWave = 2
    /\ waveTransitionTimer = WAVE_TRANSITION_DURATION

\* The wave check has found a live hazard and changed nothing.
C9_WitnessLive ==
    /\ pc = "cleanup"
    /\ AnyHazardLive
    /\ currentState = PLAYING
    /\ currentWave = before.currentWave


\* A frame in which the wave-transition countdown expired, so that
\* SpawnAsteroidWave() ran for the current wave.
WaveSpawned ==
    /\ FrameDone
    /\ before.currentState = WAVE_TRANSITION
    /\ currentState = WAITING_TO_SPAWN

\* v is a whole base value in -2..2 scaled by 1 + (n - 1) * 0.2.
ScaledBase(v, n) ==
    \E base \in -2..2 : 10 * v = base * Unit * (10 + 2 * (n - 1))

C10_WitnessFirst ==
    /\ WaveSpawned
    /\ currentWave = 1
    /\ Len(asteroids) = 4
    /\ \E k \in 1..Len(asteroids) : asteroids[k].velocityY = 2 * Unit



\* A frame that began in WAVE_TRANSITION.
TransitionFrame == FrameDone /\ before.currentState = WAVE_TRANSITION

LiveIn(hazards) == \E k \in 1..Len(hazards) : hazards[k].active

\* C11: in WAVE_TRANSITION no hazard is live; a frame of the countdown that
\* leaves it above 0 keeps the state and the (empty of live hazards)
\* population, the frame that brings it to 0 or below ends in
\* WAITING_TO_SPAWN with the hazards of the wave, and live hazards appear
\* where there were none in no other frame.
C11_SpawnAtExpiry ==
    /\ currentState = WAVE_TRANSITION => ~AnyHazardLive
    /\ TransitionFrame =>
          IF waveTransitionTimer <= 0
             THEN /\ currentState = WAITING_TO_SPAWN
                  /\ Len(asteroids) = 3 + currentWave
                  /\ \A k \in 1..Len(asteroids) : asteroids[k].active
             ELSE /\ currentState = WAVE_TRANSITION
                  /\ asteroids = before.asteroids
    /\ (FrameDone /\ ~LiveIn(before.asteroids) /\ AnyHazardLive) =>
          /\ before.currentState = WAVE_TRANSITION
          /\ currentState = WAITING_TO_SPAWN
          /\ waveTransitionTimer <= 0

\* The countdown of wave 2, begun when the last hazard was destroyed, has
\* expired in this frame: the field was empty and now holds the wave.
C11_Witness ==
    /\ TransitionFrame
    /\ before.asteroids = <<>>
    /\ before.waveTransitionTimer = WAVE_TRANSITION_DURATION
    /\ before.currentWave = 2
    /\ waveTransitionTimer <= 0
    /\ currentState = WAITING_TO_SPAWN
    /\ AnyHazardLive

\* A frame of the countdown that did not end it: the field stays empty.
C11_WitnessCounting ==
    /\ TransitionFrame
    /\ waveTransitionTimer > 0
    /\ waveTransitionTimer < before.waveTransitionTimer
    /\ currentState = WAVE_TRANSITION
    /\ asteroids = <<>>



\* A frame whose update switch ran case WAITING_TO_SPAWN (a frame in which
\* ESC is pressed leaves WAITING_TO_SPAWN for MENU before the switch and
\* runs case MENU).
WaitingFrame == FrameDone /\ switchCase = WAITING_TO_SPAWN

\* The step of case WAITING_TO_SPAWN that sets the state to PLAYING.
RespawnStep ==
    /\ pc = "frame"
    /\ pc' = "particles"
    /\ switchCase' = WAITING_TO_SPAWN
    /\ currentState' = PLAYING

\* space, enter, W/A/S/D and the arrows
QualifyingKeys ==
    {KEY_SPACE, KEY_ENTER, KEY_W, KEY_A, KEY_S, KEY_D,
     KEY_UP, KEY_DOWN, KEY_LEFT, KEY_RIGHT}

C12_WitnessRespawn ==
    /\ WaitingFrame
    /\ before.inputCooldownTimer < 0
    /\ currentState = PLAYING
    /\ lives < MAX_LIVES



\* A frame that has entered WAITING_TO_SPAWN: from PLAYING (the ship was
\* destroyed with lives remaining) or from WAVE_TRANSITION.  The countdown
\* of wave 1 is the one a new game or a restart begins with (the completion
\* of a wave counts the wave up to 2 or more).
SpawnGuardBegins ==
    /\ FrameDone
    /\ currentState = WAITING_TO_SPAWN
    /\ \/ before.currentState = PLAYING
       \/ before.currentState = WAVE_TRANSITION /\ currentWave = 1

\* C13: the WAITING_TO_SPAWN period that follows a ship destruction with
\* lives remaining, a restart from GAME_OVER or a new game started from the
\* menu or the confirmation dialog begins with the input cooldown at
\* BASE_COOLDOWN_DURATION.
C13_LockoutArmed ==
    SpawnGuardBegins => inputCooldownTimer = BASE_COOLDOWN_DURATION



\* A frame of case WAITING_TO_SPAWN that has ended in PLAYING.
RespawnFrame == WaitingFrame /\ currentState = PLAYING

C14_WitnessMoved ==
    /\ RespawnFrame
    /\ before.ship.velocityY # 0
    /\ before.ship.y # gameHeight \div 2
    /\ ship = CenteredShip



\* The bullets the step killed.
SpentNow == {b \in 1..Len(bullets) : bullets[b].active /\ ~bullets'[b].active}

\* The hazards the step destroyed.
AllDestroyedNow == {k \in 1..Len(asteroids') : DestroyedNow(k)}

\* Hazard a is live and closer to bullet b than its radius + 2.
TouchesBullet(a, b) ==
    LET reach == (CASE a.size = LARGE -> 30 [] a.size = MEDIUM -> 20
                    [] OTHER -> 10) * Unit + 2 * Unit
        dx == b.x - a.x
        dy == b.y - a.y
    IN  /\ a.active
        /\ Abs(dx) < reach
        /\ Abs(dy) < reach
        /\ dx * dx + dy * dy < reach * reach

\* C15: the bullet-hazard collision step destroys exactly as many hazards
\* as it kills bullets (one hazard for each bullet that matched, and that
\* bullet is dead afterwards), keeps the bullet population otherwise as it
\* was, and a bullet that is dead when the step begins destroys nothing.
C15_OneHitPerBullet ==
    [][BulletStep =>
          /\ Cardinality(AllDestroyedNow) = Cardinality(SpentNow)
          /\ Len(bullets') = Len(bullets)
          /\ \A b \in 1..Len(bullets) :
                /\ Motion(bullets'[b]) = Motion(bullets[b])
                /\ bullets'[b].active => bullets[b].active
          /\ (\A b \in 1..Len(bullets) : ~bullets[b].active) =>
                asteroids' = asteroids]_vars

\* A bullet has destroyed one hazard and is dead, while a hazard that is
\* within its reach (a fragment, or a second hazard at the same place) is
\* still live.
C15_Witness ==
    /\ pc = "ship"
    /\ Len(bullets) = 1
    /\ ~bullets[1].active
    /\ Cardinality({k \in 1..Len(asteroids) :
                       ~asteroids[k].active
                       /\ (k > Len(before.asteroids)
                           \/ before.asteroids[k].active)}) = 1
    /\ \E k \in 1..Len(asteroids) : TouchesBullet(asteroids[k], bullets[1])



\* The step that runs the physics integrators: case PLAYING
\* (UpdatePlayingPhysics) or case WAITING_TO_SPAWN (UpdateAsteroidPhysics).
PhysicsStep ==
    /\ pc = "frame"
    /\ pc' # "frame"
    /\ switchCase' \in {PLAYING, WAITING_TO_SPAWN}

\* The records of the population that are dead before the step are the same
\* records, at the same indices, after it.
DeadKept(population, populationAfter) ==
    \A k \in 1..Len(population) :
        ~population[k].active =>
            k <= Len(populationAfter) /\ populationAfter[k] = population[k]

Revived(a) == [a EXCEPT !.active = TRUE]

\* No live bullet is within reach of a live hazard.
NoLiveMatch ==
    \A b \in 1..Len(bullets), k \in 1..Len(asteroids) :
        bullets[b].active => ~TouchesBullet(asteroids[k], bullets[b])

\* C16: the physics step leaves every dead bullet and dead hazard where it
\* is; the bullet-hazard collision step leaves them as they are and, when no
\* live bullet is within reach of a live hazard, changes nothing; the
\* ship-hazard collision step takes no life when only dead hazards are
\* within reach of the ship; and the wave check finds the wave complete when
\* the population holds dead hazards only.
C16_DeadRecordsInert ==
    /\ [][PhysicsStep =>
             /\ DeadKept(asteroids, asteroids')
             /\ DeadKept(bullets, bullets')]_vars
    /\ [][BulletStep =>
             /\ DeadKept(asteroids, asteroids')
             /\ DeadKept(bullets, bullets')
             /\ NoLiveMatch =>
                   /\ asteroids' = asteroids
                   /\ bullets' = bullets
                   /\ score' = score]_vars
    /\ [][(ShipStep /\ HazardsTouching = {}) =>
             /\ lives' = lives
             /\ currentState' = currentState
             /\ pc' = "wave"]_vars
    /\ [][(WaveStep /\ ~AnyHazardLive) => currentState' = WAVE_TRANSITION]_vars

\* A PLAYING frame has passed both collision tests with a dead hazard within
\* reach of the ship and of a bullet position, and with a dead bullet within
\* reach of a live hazard: the dead records are where they were when the
\* frame began, and no life was lost.
C16_Witness ==
    /\ pc = "wave"
    /\ before.currentState = PLAYING
    /\ lives = before.lives
    /\ \E k \in 1..Len(before.asteroids) :
          /\ ~before.asteroids[k].active
          /\ asteroids[k] = before.asteroids[k]
          /\ TouchesShip(Revived(asteroids[k]))
    /\ \E b \in 1..Len(before.bullets) :
          /\ ~before.bullets[b].active
          /\ bullets[b] = before.bullets[b]
          /\ \E k \in 1..Len(asteroids) :
                TouchesBullet(asteroids[k], bullets[b])

\* The wave check has found the wave complete with dead hazards still in
\* the population.
C16_WitnessWave ==
    /\ pc = "cleanup"
    /\ currentState = WAVE_TRANSITION
    /\ Len(asteroids) > 0
    /\ ~AnyHazardLive
    /\ \E b \in 1..Len(bullets) : ~bullets[b].active



\* The live records of a population, in order.
LiveOf(population) == SelectSeq(population, LAMBDA o : o.active)

NoDeadIn(population) == \A k \in 1..Len(population) : population[k].active

\* The step that runs CleanupInactiveObjects().
CompactionStep == pc = "cleanup" /\ pc' # "cleanup"

C18_NoDeadAtTickEnd ==
    FrameDone =>
        /\ NoDeadIn(bullets)
        /\ NoDeadIn(asteroids)
        /\ NoDeadIn(particles)



\* The number of live records among the first k of a population.
LiveUpTo(population, k) ==
    Cardinality({j \in 1..k : population[j].active})

\* `result` holds the live records of `population`, each with its fields
\* unchanged and in the same order, and nothing else.
ExactlyTheLive(population, result) ==
    /\ Len(result) = LiveUpTo(population, Len(population))
    /\ \A k \in 1..Len(population) :
          population[k].active =>
              result[LiveUpTo(population, k)] = population[k]

\* C19: in every state of the program, CleanupInactiveObjects() leaves
\* exactly the live bullets and the live hazards, unchanged and in order,
\* and touches nothing else; CleanupParticles() does so for the particles;
\* and a second application of either changes nothing.
C19_CleanupIdempotent ==
    LET once == CleanupInactiveObjects(Globals)
        swept == CleanupParticles(Globals)
    IN  /\ ExactlyTheLive(bullets, once.bullets)
        /\ ExactlyTheLive(asteroids, once.asteroids)
        /\ [once EXCEPT !.bullets = bullets, !.asteroids = asteroids] = Globals
        /\ CleanupInactiveObjects(once) = once
        /\ ExactlyTheLive(particles, swept.particles)
        /\ [swept EXCEPT !.particles = particles] = Globals
        /\ CleanupParticles(swept) = swept

\* CleanupInactiveObjects() is about to run on populations that hold two
\* dead hazards between live ones, and dead bullets.
C19_Witness ==
    /\ pc = "cleanup"
    /\ Len(asteroids) - LiveUpTo(asteroids, Len(asteroids)) >= 2
    /\ \E k \in 2..Len(asteroids) :
          ~asteroids[k].active /\ asteroids[k - 1].active
    /\ AnyHazardLive
    /\ ~NoDeadIn(bullets)

\* CleanupParticles() is about to run on particles of which some have
\* expired in this frame and some have not.
C19_WitnessParticles ==
    /\ pc = "purge"
    /\ ~NoDeadIn(particles)
    /\ \E k \in 1..Len(particles) : particles[k].active



\* The entity lies within [0, gameWidth] x [0, gameHeight].
InField(o) ==
    /\ 0 <= o.x /\ o.x <= gameWidth
    /\ 0 <= o.y /\ o.y <= gameHeight

\* UpdateParticles() has run on the particles since they were set up.
ParticlesIntegrated == frames > 1 \/ (frames = 1 /\ pc = "integrate ship")

\* C20: the ship and every live hazard are within the field after every
\* physics update (as they are before the first), and every live particle
\* is within it once UpdateParticles() has run, whatever the velocity.
C20_WithinField ==
    /\ InField(ship)
    /\ \A k \in 1..Len(asteroids) : asteroids[k].active => InField(asteroids[k])
    /\ ParticlesIntegrated =>
          \A k \in 1..Len(particles) : particles[k].active => InField(particles[k])

\* One round of updates has carried the ship across the top edge, the
\* hazard, at two field widths per frame, across the right edge, and a
\* particle created above the field to its bottom edge.
C20_Witness ==
    /\ pc = "integrate ship"
    /\ frames = 1
    /\ ship.velocityY < 0
    /\ ship.y = gameHeight
    /\ asteroids[1].velocityX = 2 * gameWidth
    /\ asteroids[1].x = 0
    /\ before.particles[1].y < 0
    /\ particles[1].active
    /\ particles[1].y = gameHeight



\* UpdateBulletPhysics() runs in this step.
BulletPhysicsStep == pc = "integrate bullets" /\ pc' = "collide bullets"

\* HandleBulletAsteroidCollisions() runs in this step.
BulletHitStep == pc = "collide bullets" /\ pc' = "integrate bullets"

C21_WitnessHit ==
    /\ pc = "integrate bullets"
    /\ frames = 1
    /\ InField(bullets[1])
    /\ ~bullets[1].active
    /\ ~asteroids[1].active
    /\ score = 20



\* The update switch of a tick in which the input source reports `in` and
\* the clock dt, whichever case it runs.
TickWith(in, dt) ==
    \/ MenuCase(in, dt)
    \/ NewGameConfirmCase(in, dt)
    \/ HighScoresCase(in, dt)
    \/ GameOverCase(in, dt)
    \/ WaveTransitionCase(in, dt)
    \/ WaitingToSpawnCase(in, dt)
    \/ PlayingCase(in, dt)
    \/ PausedCase(in, dt)

PauseOnly == [pressed |-> {KEY_P}, down |-> {KEY_P}]

\* C22: a tick in which only P goes down takes PLAYING to PAUSED and PAUSED
\* to PLAYING; begun in any other state it is a tick that could have been
\* taken with no key down: same state transition, same changes.
C22_PauseToggle ==
    [][TickWith(PauseOnly, Tick) =>
         /\ (currentState = PLAYING) => (currentState' = PAUSED)
         /\ (currentState = PAUSED) => (currentState' = PLAYING)
         /\ (currentState \notin {PLAYING, PAUSED}) => TickWith(NoKeys, Tick)]_vars

\* A pause and its quick resume: the tick began in PAUSED and ended in
\* PLAYING without the pause menu having been set up, which only the P
\* branch of the PAUSED case does.
C22_Witness ==
    /\ FrameDone
    /\ before.currentState = PAUSED
    /\ currentState = PLAYING
    /\ lastPauseState = PLAYING



SelectKeys == {KEY_ENTER, KEY_SPACE}

\* The main menu after the navigation keys of `in` have been applied and
\* before its select key is.
Navigated(in) ==
    UpdateUnifiedMenu(AtSwitch(in),
                      [pressed |-> in.pressed \ SelectKeys, down |-> in.down])

\* The tick runs the MENU case and its select key falls on "New Game".
SelectsNewGame(in) ==
    /\ SwitchState(in) = MENU
    /\ in.pressed \cap SelectKeys # {}
    /\ Navigated(in).currentMenuItems # <<>>
    /\ Navigated(in).currentMenuItems[Navigated(in).selectedMenuIndex + 1].action
          = ACTION_NEW_GAME

FreshSession ==
    /\ currentState' = WAVE_TRANSITION
    /\ score' = 0
    /\ lives' = MAX_LIVES
    /\ currentWave' = 1
    /\ bullets' = <<>>
    /\ asteroids' = <<>>

SessionKept == UNCHANGED <<score, lives, currentWave, ship, bullets, asteroids>>

Declines(in) ==
    /\ ~IsKeyPressed(in, KEY_Y)
    /\ IsKeyPressed(in, KEY_N) \/ IsKeyPressed(in, KEY_ESCAPE)

\* C23: selecting "New Game" in MENU leads to NEW_GAME_CONFIRM, the session
\* untouched, when lives > 0, and to a fresh session otherwise; accepting
\* the confirmation (Y) gives a fresh session: WAVE_TRANSITION, score 0,
\* lives MAX_LIVES, wave 1, no bullets, no hazards; declining it (N or ESC)
\* leads to MENU with score, lives, wave, ship, bullets and hazards as they
\* were.
C23_NewGameConfirmation ==
    /\ [][\A f \in FrameSamples :
             (MenuCase(f[1], f[2]) /\ SelectsNewGame(f[1])) =>
                IF lives > 0
                   THEN currentState' = NEW_GAME_CONFIRM /\ SessionKept
                   ELSE FreshSession]_vars
    /\ [][\A f \in FrameSamples :
             (NewGameConfirmCase(f[1], f[2]) /\ IsKeyPressed(f[1], KEY_Y)) =>
                FreshSession]_vars
    /\ [][\A f \in FrameSamples :
             (NewGameConfirmCase(f[1], f[2]) /\ Declines(f[1])) =>
                currentState' = MENU /\ SessionKept]_vars

\* The confirmation was accepted over a session that had scored and fired:
\* the tick began in NEW_GAME_CONFIRM and ended in a fresh session.
C23_Witness ==
    /\ FrameDone
    /\ before.currentState = NEW_GAME_CONFIRM
    /\ before.score > 0
    /\ before.asteroids # <<>>
    /\ currentState = WAVE_TRANSITION
    /\ score = 0
    /\ lives = MAX_LIVES
    /\ asteroids = <<>>

\* The confirmation was declined.
C23_WitnessDeclined ==
    /\ FrameDone
    /\ before.currentState = NEW_GAME_CONFIRM
    /\ currentState = MENU
    /\ score > 0
    /\ asteroids = before.asteroids

\* "New Game" selected with no session: a fresh session at once.
C23_WitnessDirect ==
    /\ FrameDone
    /\ before.currentState = MENU
    /\ before.lives = 0
    /\ currentState = WAVE_TRANSITION
    /\ lives = MAX_LIVES



EscapeOnly == [pressed |-> {KEY_ESCAPE}, down |-> {KEY_ESCAPE}]

C24_WitnessWaiting ==
    /\ FrameDone
    /\ before.currentState = WAITING_TO_SPAWN
    /\ switchCase = MENU
    /\ currentState = MENU



\* The item the pause menu's selection is on.
SelectedItem == currentMenuItems[selectedMenuIndex + 1]

\* C25: in PAUSED the selection made by one tick's update is still there
\* for the next tick (the draw that ends the tick leaves the selected index
\* alone), and a tick in which only the select key goes down, with the
\* selection on "Main Menu", ends in MENU.
C25_PauseMenuToMainMenu ==
    /\ [][(pc = "draw" /\ currentState = PAUSED) =>
             selectedMenuIndex' = selectedMenuIndex]_vars
    /\ [][(PausedCase([pressed |-> {KEY_ENTER}, down |-> {KEY_ENTER}], Tick)
             /\ lastPauseState = PAUSED
             /\ currentMenuItems = PauseMenuItems
             /\ SelectedItem.label = "Main Menu") =>
                currentState' = MENU]_vars



\* The actions of the items of a menu, in order.
ActionsOf(items) == [k \in 1..Len(items) |-> items[k].action]

\* The items UpdateUnifiedMenu() hands to UpdateDynamicMenu() in a tick
\* that begins now with input `in`.
MenuProcessed(in) == RebuildMainMenu(AtSwitch(in)).currentMenuItems

\* C26: whenever a tick is about to process input in MENU, the item list
\* it works on is the main-menu list of the current session: Resume first
\* if and only if lives > 0, then New Game, High Scores, Scale and Exit.
C26_MainMenuList ==
    (pc = "frame" /\ frames > 0) =>
        \A in \in InputSamples :
            SwitchState(in) = MENU =>
                ActionsOf(MenuProcessed(in)) =
                    (IF lives > 0 THEN <<ACTION_RESUME>> ELSE <<>>)
                    \o <<ACTION_NEW_GAME, ACTION_HIGH_SCORES, ACTION_SCALE,
                         ACTION_EXIT>>



\* C27: once LoadHighScore() has run, no step lowers the high score; a step
\* that changes it, and a step that writes highscore.dat, is taken with the
\* current score strictly above the value held so far, and stores that
\* score.
C27_HighScoreMonotone ==
    /\ [][(pc # "load") => (highScore' >= highScore)]_vars
    /\ [][(pc # "load" /\ highScore' # highScore) =>
             (score > highScore /\ highScore' = score)]_vars
    /\ [][(highScoreFile' # highScoreFile) =>
             /\ score > highScore
             /\ highScoreFile' = <<score>>
             /\ highScoreFile # NoFile => score > highScoreFile[1]]_vars

\* A high score set by a finished session has outlived the restart of the
\* game: the new session has score 0, the high score and the file hold the
\* score of the old one.
C27_Witness ==
    /\ FrameDone
    /\ before.currentState = GAME_OVER
    /\ currentState = WAVE_TRANSITION
    /\ score = 0
    /\ highScore > 0
    /\ highScore = before.score
    /\ highScoreFile = <<highScore>>

\* The file could not be written: the high score is held in memory only.
C27_WitnessUnwritten ==
    /\ FrameDone
    /\ currentState = GAME_OVER
    /\ highScore = score
    /\ highScore > 0
    /\ highScoreFile = NoFile



\* C28: the high score is the best score ever achieved.  A step that
\* discards the score of a session (the score goes down) leaves a high
\* score at least as high as the score discarded, and a finished session
\* (GAME_OVER) has its score covered by the high score.
C28_HighWaterMark ==
    /\ [][(score' < score) => (highScore' >= score)]_vars
    /\ [](currentState = GAME_OVER => highScore >= score)



\* What a pause has to preserve.
Physical(g) ==
    <<g.ship, g.bullets, g.asteroids, g.score, g.lives, g.currentWave,
      g.waveTransitionTimer, g.inputCooldownTimer>>

\* The current tick runs the PAUSED case, or is the PLAYING tick that
\* paused the game.
PauseTick ==
    /\ frames > 0
    /\ \/ switchCase = PAUSED
       \/ switchCase = PLAYING /\ currentState = PAUSED

\* C29: throughout the tick that pauses the game and throughout every tick
\* spent in PAUSED, the last of them included (the one that resumes), the
\* ship, the bullets, the hazards, score, lives, wave and both timers are
\* what they were when the tick began, so that PLAYING resumes with what it
\* was paused with; none of these ticks passes through the physics and
\* collision steps of the PLAYING case.
C29_PauseRoundTrip ==
    PauseTick =>
        /\ Physical(Globals) = Physical(before)
        /\ pc \in {"particles", "purge", "draw", "frame"}

\* PLAYING has resumed after a tick of physics, the pausing tick and one
\* more tick in PAUSED, with a hazard on the move where the tick before the
\* pause left it.
C29_Witness ==
    /\ FrameDone
    /\ frames = 3
    /\ switchCase = PAUSED
    /\ before.currentState = PAUSED
    /\ currentState = PLAYING
    /\ \E k \in 1..Len(asteroids) :
          asteroids[k].active /\ asteroids[k].velocityY # 0



\* UpdateParticles() runs in this step.
ParticleStep == pc = "particles" /\ pc' = "purge"

Advanced(from, velocity, extent, to) ==
    LET sum == from + velocity
    IN  /\ (0 <= sum /\ sum <= extent) => to = sum
        /\ sum < 0 => to = extent
        /\ sum > extent => to = 0

\* In a frame of case WAITING_TO_SPAWN every live hazard has moved by its
\* velocity, with wrap, and nothing else of a hazard has changed.
HazardsAdvanced ==
    /\ Len(asteroids) = Len(before.asteroids)
    /\ \A k \in 1..Len(asteroids) :
          IF before.asteroids[k].active
             THEN /\ Advanced(before.asteroids[k].x, before.asteroids[k].velocityX,
                              gameWidth, asteroids[k].x)
                  /\ Advanced(before.asteroids[k].y, before.asteroids[k].velocityY,
                              gameHeight, asteroids[k].y)
                  /\ [asteroids[k] EXCEPT !.x = 0, !.y = 0] =
                        [before.asteroids[k] EXCEPT !.x = 0, !.y = 0]
             ELSE asteroids[k] = before.asteroids[k]

\* No collision, scoring, wave-completion check or cleanup has taken place.
NoPlayResolved ==
    /\ bullets = before.bullets
    /\ score = before.score
    /\ lives = before.lives
    /\ currentWave = before.currentWave
    /\ highScore = before.highScore
    /\ currentState \in {WAITING_TO_SPAWN, PLAYING}

\* C31 as stated: in a frame of case WAITING_TO_SPAWN every live hazard
\* moves by its velocity (with wrap), the position and velocity of the ship
\* and every bullet are unchanged, and there is no collision, scoring,
\* wave-completion check or cleanup.
C31_HazardsOnly ==
    WaitingFrame =>
        /\ HazardsAdvanced
        /\ NoPlayResolved
        /\ Motion(ship) = Motion(before.ship)

\* C31 amended: as stated, except that the frame which returns control
\* (ends in PLAYING) has put the ship at the centre of the field at rest;
\* in a frame that stays in WAITING_TO_SPAWN the ship is unchanged.
C31_HazardsOnlyUntilRespawn ==
    WaitingFrame =>
        /\ HazardsAdvanced
        /\ NoPlayResolved
        /\ currentState = WAITING_TO_SPAWN => ship = before.ship
        /\ currentState = PLAYING => Motion(ship) = Motion(CenteredShip)

\* A frame spent waiting: a hazard has drifted while the ship, lost while
\* moving, is where it was.
C31_Witness ==
    /\ WaitingFrame
    /\ currentState = WAITING_TO_SPAWN
    /\ \E k \in 1..Len(asteroids) :
          asteroids[k].active /\ Motion(asteroids[k]) # Motion(before.asteroids[k])
    /\ ship.velocityY # 0
    /\ ship = before.ship

\* A frame spent waiting with a bullet in the population, which has stayed
\* as it was.
C31_WitnessBullet ==
    /\ WaitingFrame
    /\ currentState = WAITING_TO_SPAWN
    /\ before.bullets # <<>>
    /\ bullets = before.bullets

\* The frame that returned control has moved the ship, lost away from the
\* centre, back to it.
C31_WitnessRespawn ==
    /\ WaitingFrame
    /\ currentState = PLAYING
    /\ Motion(before.ship) # Motion(CenteredShip)
    /\ \E k \in 1..Len(asteroids) :
          asteroids[k].active /\ Motion(asteroids[k]) # Motion(before.asteroids[k])




\* C32: a session in WAVE_TRANSITION eventually reaches WAITING_TO_SPAWN;
\* until then no step, whatever keys are pressed in the tick, takes it to
\* any other state, and the step that leaves does so with the countdown at
\* 0 or below.
C32_TransitionRunsOut ==
    /\ [][currentState = WAVE_TRANSITION =>
             /\ currentState' \in {WAVE_TRANSITION, WAITING_TO_SPAWN}
             /\ currentState' = WAITING_TO_SPAWN =>
                   (waveTransitionTimer > 0 /\ waveTransitionTimer' <= 0)]_vars
    /\ [](currentState = WAVE_TRANSITION => waveTransitionTimer > 0)
    /\ (currentState = WAVE_TRANSITION) ~> (currentState = WAITING_TO_SPAWN)

\* The countdown of the second wave has run out two hundredths of a second
\* at a time, and the tick that took the last of it has spawned the wave.
C32_Witness ==
    /\ pc = "frame"
    /\ currentState = WAITING_TO_SPAWN
    /\ currentWave = 2
    /\ before.currentState = WAVE_TRANSITION
    /\ before.waveTransitionTimer = Tick
    /\ Len(asteroids) = AsteroidCount(2)




\* C33: after a ship destruction with lives remaining PLAYING is entered
\* again only through the respawn of the spawn guard.  A destruction is
\* what takes a life (a new game or a restart begins with MAX_LIVES) and
\* what arms the lockout that only case WAITING_TO_SPAWN counts down, so:
\* a session that has lost a life is never in PLAYING with the lockout
\* above 0, and the step that takes such a session from WAITING_TO_SPAWN to
\* PLAYING, whatever keys are pressed, leaves the lockout at 0 or below and
\* the ship at the centre of the field at rest.
C33_SpawnGuardNotBypassed ==
    /\ []((currentState = PLAYING /\ lives < MAX_LIVES) =>
             inputCooldownTimer <= 0)
    /\ [][(currentState = WAITING_TO_SPAWN /\ lives < MAX_LIVES
              /\ currentState' = PLAYING) =>
             /\ inputCooldownTimer' <= 0
             /\ Motion(ship') = Motion(CenteredShip)]_vars




\* C34: in PLAYING, PAUSED and WAITING_TO_SPAWN there is at least one life,
\* in GAME_OVER there is none, and no step takes a session that has no life
\* into PLAYING.
C34_LivesMatchState ==
    /\ [](currentState \in {PLAYING, PAUSED, WAITING_TO_SPAWN} => lives >= 1)
    /\ [](currentState = GAME_OVER => lives = 0)
    /\ [][lives = 0 => currentState' # PLAYING]_vars

\* The last life has been lost: the frame ends in GAME_OVER with no life.
C34_Witness ==
    /\ FrameDone
    /\ before.currentState = PLAYING
    /\ before.lives = 1
    /\ currentState = GAME_OVER
    /\ lives = 0

\* The main menu has been entered from the game-over screen and a frame of
\* it has run with no life: the session has stayed out of PLAYING.
C34_WitnessMenu ==
    /\ FrameDone
    /\ frames = MaxFrames
    /\ switchCase = MENU
    /\ before.currentState = MENU
    /\ before.lives = 0
    /\ before.score > 0
    /\ currentState # PLAYING




\* The number of live hazards.
LiveHazards == Cardinality({k \in 1..Len(asteroids) : asteroids[k].active})

\* C35: during wave n there are never more than 4 * (3 + n) live hazards,
\* nor more than 7 * (3 + n) records in the hazard vector.
C35_HazardsBounded ==
    currentState = PLAYING =>
        /\ LiveHazards <= 4 * (3 + currentWave)
        /\ Len(asteroids) <= 7 * (3 + currentWave)




RECURSIVE HazardsUpTo(_)
\* The number of LARGE hazards spawned in waves 1..n: the sum of 3 + k.
HazardsUpTo(n) == IF n = 0 THEN 0 ELSE HazardsUpTo(n - 1) + (3 + n)

\* The wave check counts the wave up.
WaveCounted == currentWave' = currentWave + 1

\* C36: the step that counts wave n up to n + 1 finds the score of the
\* session at 520 points for each of the 3 + k hazards of every wave k up
\* to n.
C36_WaveScore ==
    [][WaveCounted => score' = 520 * HazardsUpTo(currentWave)]_vars




\* The hazards that were touching the ship when the tick's collisions began
\* and that a bullet has destroyed since.
ShotWhileTouching ==
    {k \in 1..Len(before.asteroids) :
        TouchesShip(before.asteroids[k]) /\ ~asteroids[k].active}

\* C37: HandleShipAsteroidCollisions() runs straight after
\* HandleBulletAsteroidCollisions(); the game-over step leaves the score,
\* with the points of the tick in it, as it is and the high score at the
\* greater of the two; and the ship step takes no life when no live hazard
\* touches the ship, a hazard that a bullet has destroyed in the tick not
\* being live.
C37_BulletsBeforeShip ==
    /\ [][(pc = "bullets" => pc' = "ship") /\ (pc' = "ship" => pc = "bullets")]_vars
    /\ [][(ShipStep /\ currentState' = GAME_OVER) =>
             /\ score' = score
             /\ highScore' = IF score > highScore THEN score ELSE highScore]_vars
    /\ [][(ShipStep /\ HazardsTouching = {}) =>
             /\ lives' = lives
             /\ currentState' = currentState]_vars
    /\ [](pc = "wave" => lives = before.lives)

\* The bullet has destroyed the LARGE hazard that was touching the ship and
\* the ship test has passed without the loss of a life (the fragments lie
\* with their parent, beyond the reach of a MEDIUM hazard).
C37_Witness ==
    /\ pc = "wave"
    /\ ShotWhileTouching # {}
    /\ HazardsTouching = {}
    /\ lives = before.lives
    /\ score > before.score

\* The bullet has destroyed the hazard that was touching the ship, and a
\* fragment created by that hit has destroyed the ship in the same tick.
C37_WitnessFragment ==
    /\ pc = "particles"
    /\ ShotWhileTouching # {}
    /\ lives = before.lives - 1
    /\ HazardsTouching # {}
    /\ \A k \in HazardsTouching : k > Len(before.asteroids)

\* The 20 points of the tick of the fatal collision have made the record.
C37_WitnessRecord ==
    /\ pc = "particles"
    /\ currentState = GAME_OVER
    /\ before.score < before.highScore
    /\ score = before.score + 20
    /\ highScore = score




\* Hazard a lies in the field, outside the box of 100 pixels about its
\* centre, and farther from the centre than a LARGE hazard and the ship
\* reach together.
PlacedClear(a) ==
    LET dx == a.x - gameWidth \div 2
        dy == a.y - gameHeight \div 2
        reach == AsteroidRadius(LARGE) + ShipRadius
    IN  /\ 0 <= a.x /\ a.x <= gameWidth
        /\ 0 <= a.y /\ a.y <= gameHeight
        /\ Abs(dx) >= 100 * Unit \/ Abs(dy) >= 100 * Unit
        /\ (Abs(dx) < reach /\ Abs(dy) < reach) => dx * dx + dy * dy >= reach * reach
        /\ ~TouchesShip(a)

\* C38: every hazard that SpawnAsteroidWave() has placed is LARGE and live,
\* lies in the field and outside the exclusion box, and does not touch a
\* ship at the centre of the field.
C38_SpawnedClear ==
    /\ ship = CenteredShip
    /\ \A k \in 1..Len(asteroids) :
          /\ asteroids[k].size = LARGE
          /\ asteroids[k].active
          /\ PlacedClear(asteroids[k])

\* SpawnAsteroidWave() has returned with the whole wave placed, one hazard
\* on the border of the exclusion box and one in the corner of the field.
C38_Witness ==
    /\ pc = "particles"
    /\ Len(asteroids) = AsteroidCount(currentWave)
    /\ \E k \in 1..Len(asteroids) :
          asteroids[k].x = 300 * Unit /\ asteroids[k].y = 300 * Unit
    /\ \E k \in 1..Len(asteroids) :
          asteroids[k].x = gameWidth /\ asteroids[k].y = gameHeight
====
